---- MODULE Spec2Model ----
(***************************************************************************)
(* State-machine model of the IRVS agent core:                             *)
(*   - Sysguard::IPC::IPCBroker (src/AgentCore/IPC/IPCFramework.cpp)       *)
(*   - Session (src/RemoteDesktopServer/RemoteDesktopServer.cpp)           *)
(* Each thread of the program is a process of the model; a step is one     *)
(* critical section or one atomic read/write of the code.                  *)
(***************************************************************************)
EXTENDS Integers, Sequences, FiniteSets, TLC

(***************************************************************************)
(* Bounds of the model.                                                    *)
(***************************************************************************)
MaxMsgs == 2
MaxHandlers == 2
MaxStarts == 2

\* Module names used by the client threads, and the empty std::string.
Names == {"A", "B"}
Empty == ""
\* Threads that call the broker's public API besides the control thread.
Clients == {"c1", "c2"}
\* The client threads that register modules and handlers; every client publishes.
Registrars == {"c1"}
\* What one invocation of a std::function handler can do: return, throw an
\* exception derived from std::exception, or throw anything else.
Outcomes == {"returns", "throws_std", "throws_other"}

NoMsg == [id |-> 0, sourceModule |-> Empty, targetModule |-> Empty]
NoArg == [op |-> "none", name |-> Empty, msg |-> NoMsg, ret |-> FALSE, was |-> FALSE]

VARIABLES
    \* ---- IPCBroker fields ----
    running,            \* _running
    messageQueue,       \* _messageQueue
    handlers,           \* _handlers: module name -> number of handlers in its vector (0: no key)
    registeredModules,  \* _registeredModules (a vector)
    handlersMutex,      \* holder of _handlersMutex, or "free"
    modulesMutex,       \* holder of _modulesMutex, or "free"
    \* ---- the processing thread (ProcessMessages) ----
    wpc,                \* position of the worker; "none": no thread exists
    message,            \* local `message`
    targetModules,      \* local `targetModules`
    ti, hi,             \* positions of the two for loops of the dispatch
    \* ---- the control thread (Start/Stop) and the client threads ----
    cpc,                \* position of the control thread inside Stop()
    pc, arg,            \* position of each client thread; its call, argument and result
    \* ---- history of what happened (not program state) ----
    nextId,             \* ids of the messages handed to SendMessage so far
    sent,               \* per message: what SendMessage saw and returned
    enqueued,           \* ids in the order they were pushed
    dispatched,         \* ids in the order they were popped
    calls,              \* handler invocations for the current message, in order
    threw,              \* a handler threw while the current message was dispatched
    snapshot,           \* _registeredModules as the worker read it for the current message
    invoked,            \* ids of the messages for which a handler was invoked
    discarded,          \* ids removed from the queue by Stop()
    \* ---- Session fields and threads ----
    sessRunning,        \* Session::_running
    screenThread,       \* _screenThread: "none" (not joinable) or the position of its thread
    inputThread,        \* _inputThread: "none" (not joinable) or the position of its thread
    screenLoops,        \* ScreenCaptureLoop threads spawned and not joined
    inputLoops,         \* InputProcessingLoop threads spawned and not joined
    clientSocket,       \* _clientSocket: "open" or "closed"
    peer,               \* the remote end: "connected" or "disconnected"
    spc,                \* position of the thread that owns the Session
    destroyed,          \* "alive", "destroying" (inside ~Session) or "destroyed"
    terminated,         \* "no", or the function in which std::terminate was called
    \* ---- history of the Session (not program state) ----
    starts,             \* number of Start() calls
    sinceStop,          \* number of Start() calls since the last Stop() call
    lastStart,          \* what the last Start() returned: "none", "true", "false"
    closes,             \* number of close(_clientSocket) calls
    closedEarly,        \* close(_clientSocket) was called while a loop thread was not joined
    \* ---- the bytes the Session receives and the input it injects ----
    sessKey,            \* _encryptionManager._key of the Session, empty until it is first needed
    chunk,              \* the buffer ReceiveData returned to the inbound loop
    sentChunks,         \* history: the chunks the peer sent, in order
    nReceived,          \* history: how many of them ReceiveData has returned
    injected,           \* history: the events passed to InputHandler::ProcessInput, in order
    \* ---- SerializableMessage: one frame through Serialize and Deserialize ----
    frame,              \* the SerializableMessage that was serialized
    wire,               \* the byte vector handed to Deserialize
    decoded,            \* how Deserialize ended, and the message it returned
    \* ---- EncryptionManager: one buffer through Encrypt and Decrypt ----
    key,                \* _key, empty before the constructor ran
    plain,              \* the bytes handed to Encrypt
    cipher,             \* what Encrypt returned
    recovered,          \* what Decrypt returned for it, in a one-element sequence
    \* ---- the handler RemoteDesktopServer registers with the broker ----
    request,            \* the Message the worker hands to the handler
    hpc,                \* the handler: "idle", "handling" (called) or "done" (returned)
    published,          \* what the handler passed to SendMessage for this request, and the result
    counter,            \* the counter of Message::GenerateUniqueId
    commands,           \* number of messages handed to the handler
    \* ---- RemoteDesktopServer: the state ExecuteCommand reads and writes ----
    srvRunning,         \* RemoteDesktopServer::_running
    port,               \* _port
    sessions,           \* the keys of _sessions
    lastCommand,        \* the text of the last ExecuteCommand, as its characters
    lastResponse,       \* the response it wrote
    before,             \* _running, _port and the keys of _sessions when it was called
    executed,           \* number of ExecuteCommand calls
    \* ---- NetworkManager: the listening socket and the accept thread ----
    nmRunning,          \* NetworkManager::_running
    serverSocket,       \* _serverSocket: "none", "listening", "bound" (open, not listening) or "closed"
    acceptThread,       \* _acceptThread: "none" (not joinable) or the position of its thread
    npc,                \* the thread calling Start and Stop: "idle", "join", "close"
    pending,            \* connections of peers waiting to be accepted (the backlog)
    nmTerminated,       \* std::terminate was called
    \* ---- history of the NetworkManager (not program state) ----
    netStarts,          \* number of Start calls
    startResult,        \* what the last Start returned: "none", "true", "false"
    lateCallback,       \* _connectionCallback was called after Stop had returned
    stopReturned,       \* Stop has returned and Start was not called since
    \* ---- Message ids: the counter of GenerateUniqueId and who publishes ----
    idCounter,          \* the static counter of Message::GenerateUniqueId
    idRegistry,         \* _registeredModules, as far as RegisterWithAgentCore changes it
    idHandlers,         \* number of handlers RegisterWithAgentCore registered
    creating,           \* per thread: the message it created and has not yet sent
    posted,             \* history: the messages SendMessage accepted, in order
    issued,             \* history: the ids GenerateUniqueId returned, in order
    registrations,      \* history: number of RegisterWithAgentCore calls
    \* ---- RemoteDesktopServer::_sessions and the threads that use it ----
    sessionTable,       \* per socket: "absent", or "running" / "ended" for the Session of that key
    tableMutex,         \* _sessionsMutex: "free" or the thread that holds it
    tpc,                \* per thread: the access to _sessions it is inside of
    tblRunning,         \* RemoteDesktopServer::_running
    tblClosed,          \* the client sockets that were closed
    tblCrashed,         \* the process has ended abnormally
    \* ---- IPCBroker::Start and Stop called by two threads ----
    lcRunning,          \* IPCBroker::_running
    lcThread,           \* _processingThread: 0 (not joinable) or the number of its thread
    lcWorkers,          \* per thread number: "unborn", "running", "exited" or "joined"
    lcpc,               \* per calling thread: its position in Start or Stop
    lcTerminated,       \* std::terminate was called
    lcSpawns,           \* history: number of threads created
    lcOverlapped,       \* history: a call began while another thread was inside a call
    \* ---- ExecuteCommand("start") and ("stop") on request threads ----
    ccRunning,          \* RemoteDesktopServer::_running
    ccNmRunning,        \* NetworkManager::_running
    ccSocket,           \* what _serverSocket refers to: "none", "listening" or "closed"
    ccBound,            \* a socket is bound to the port and listens
    ccAccept,           \* _acceptThread: "none" (not joinable), "running" or "exited"
    ccTerminated,       \* std::terminate was called
    ccpc,               \* per request thread: its command and its position in it
    ccResp,             \* per request thread: the message of its last response
    ccOverlapped,       \* history: a command began while another was being executed
    \* ---- what the helpers of a Session hand to NetworkManager::SendData ----
    sendKind,           \* the helper that sent last: "none", "screen", "clipboard", ...
    sendPayload,        \* the payload that helper had to send
    sendBytes,          \* the bytes given to send()
    fileRest,           \* the part of the file SendFile has not sent yet
    inFile,             \* SendFile is in its loop
    \* ---- the handler of the server, with the state of the server ----
    delivered,          \* the number of messages the handler was called with
    dlvRequest,         \* the message of the last call: its type and payload
    dlvBefore,          \* the state of the server when it was called
    dlvPublished,       \* the messages it gave to SendMessage, in order
    \* ---- Serialize on messages given by the sizes of their strings ----
    sizes,              \* source.size(), target.size(), content.size() of the message
    lengthBytes,        \* bytes 1..8 of the result: the three length fields
    resultSize,         \* result.size()
    \* ---- handlers that call SendMessage ----
    reentrant,          \* history: the messages published by handlers
    \* ---- SessionRecorder, and the threads that call it ----
    recording,          \* _recording
    recordOpen,         \* _recordFile is open
    recordFile,         \* what the recording file holds: the fields written, in order
    recPc,              \* per thread: the fields of its record it has still to write
    recNext,            \* history: the number of the next record
    recStarts           \* history: the number of recordings started

locks == <<handlersMutex, modulesMutex>>
wlocals == <<message, targetModules, ti, hi>>
clientVars == <<pc, arg>>
sendHist == <<nextId, sent, enqueued>>
dispHist == <<dispatched, calls, threw, snapshot, invoked>>
brokerVars == <<running, messageQueue, handlers, registeredModules, locks, wpc, wlocals,
                cpc, clientVars, sendHist, dispHist, discarded>>
inputVars == <<sessKey, chunk, sentChunks, nReceived, injected>>
sessionVars == <<inputVars, sessRunning, screenThread, inputThread, screenLoops, inputLoops,
                 clientSocket, peer, spc, destroyed, terminated, starts, sinceStop,
                 lastStart, closes, closedEarly>>
codecVars == <<frame, wire, decoded>>
cipherVars == <<key, plain, cipher, recovered>>
handlerVars == <<request, hpc, published, counter, commands>>
serverVars == <<srvRunning, port, sessions, lastCommand, lastResponse, before, executed>>
acceptorVars == <<nmRunning, serverSocket, acceptThread, npc, pending, nmTerminated,
                  netStarts, startResult, lateCallback, stopReturned>>
identityVars == <<idCounter, idRegistry, idHandlers, creating, posted, issued, registrations>>
tableVars == <<sessionTable, tableMutex, tpc, tblRunning, tblClosed, tblCrashed>>
lifecycleVars == <<lcRunning, lcThread, lcWorkers, lcpc, lcTerminated, lcSpawns, lcOverlapped>>
controlState == <<ccRunning, ccNmRunning, ccSocket, ccBound, ccAccept, ccTerminated>>
controlVars == <<controlState, ccpc, ccResp, ccOverlapped>>
outboundVars == <<sendKind, sendPayload, sendBytes, fileRest, inFile>>
deliveredVars == <<delivered, dlvRequest, dlvBefore, dlvPublished>>
sizedVars == <<sizes, lengthBytes, resultSize>>
reentrantVars == <<reentrant>>
recorderVars == <<recording, recordOpen, recordFile, recPc, recNext, recStarts>>
finalVars == <<outboundVars, deliveredVars, sizedVars, reentrantVars, recorderVars>>
otherThanOutbound == <<deliveredVars, sizedVars, reentrantVars, recorderVars>>
otherThanDelivered == <<outboundVars, sizedVars, reentrantVars, recorderVars>>
otherThanSized == <<outboundVars, deliveredVars, reentrantVars, recorderVars>>
otherThanRecorder == <<outboundVars, deliveredVars, sizedVars, reentrantVars>>
laterVars == <<identityVars, tableVars, lifecycleVars, controlVars, finalVars>>
restVars == <<codecVars, cipherVars, handlerVars, serverVars, acceptorVars, laterVars>>
otherThanCodec == <<brokerVars, sessionVars, cipherVars, handlerVars, serverVars, acceptorVars, laterVars>>
otherThanCipher == <<brokerVars, sessionVars, codecVars, handlerVars, serverVars, acceptorVars, laterVars>>
otherThanHandler == <<sessionVars, codecVars, cipherVars, serverVars, acceptorVars, laterVars>>
otherThanServer == <<brokerVars, sessionVars, codecVars, cipherVars, handlerVars, acceptorVars, laterVars>>
otherThanAcceptor == <<brokerVars, sessionVars, codecVars, cipherVars, handlerVars, serverVars, laterVars>>
earlierVars == <<brokerVars, sessionVars, codecVars, cipherVars, handlerVars, serverVars,
                 acceptorVars, finalVars>>
beforeFinal == <<brokerVars, sessionVars, codecVars, cipherVars, handlerVars, serverVars,
                 acceptorVars, identityVars, tableVars, lifecycleVars, controlVars>>
vars == <<brokerVars, sessionVars, restVars>>

(***************************************************************************)
(* Helpers.                                                                *)
(***************************************************************************)
Range(s) == {s[i] : i \in 1..Len(s)}

\* std::find(v.begin(), v.end(), x) != v.end()
Contains(v, x) == x \in Range(v)

\* v.erase(std::remove(v.begin(), v.end(), x), v.end()), and v.erase(find(x))
\* on a vector that holds x at most once.
Remove(v, x) == SelectSeq(v, LAMBDA e : e # x)

\* The process is gone once an exception left the worker thread.
Alive == wpc # "terminated"

BrokerInit ==
    /\ running = FALSE
    /\ messageQueue = <<>>
    /\ handlers = [n \in Names |-> 0]
    /\ registeredModules = <<>>
    /\ handlersMutex = "free"
    /\ modulesMutex = "free"
    /\ wpc = "none"
    /\ message = NoMsg
    /\ targetModules = <<>>
    /\ ti = 1
    /\ hi = 1
    /\ cpc = "idle"
    /\ pc = [c \in Clients |-> "idle"]
    /\ arg = [c \in Clients |-> NoArg]
    /\ nextId = 1
    /\ sent = <<>>
    /\ enqueued = <<>>
    /\ dispatched = <<>>
    /\ calls = <<>>
    /\ threw = FALSE
    /\ snapshot = <<>>
    /\ invoked = {}
    /\ discarded = {}

SessionInit ==
    /\ sessRunning = FALSE
    /\ screenThread = "none"
    /\ inputThread = "none"
    /\ screenLoops = 0
    /\ inputLoops = 0
    /\ clientSocket = "open"
    /\ peer = "connected"
    /\ spc = "idle"
    /\ destroyed = "alive"
    /\ terminated = "no"
    /\ starts = 0
    /\ sinceStop = 0
    /\ lastStart = "none"
    /\ closes = 0
    /\ closedEarly = FALSE
    /\ sessKey = <<>>
    /\ chunk = <<>>
    /\ sentChunks = <<>>
    /\ nReceived = 0
    /\ injected = <<>>

\* A default-constructed SerializableMessage (type UNDEFINED = 255).
DefaultMessage ==
    [type |-> 255, source |-> <<>>, target |-> <<>>, content |-> <<>>, timestamp |-> 0]

NotDecoded == [status |-> "none", msg |-> DefaultMessage]

CodecInit ==
    /\ frame = DefaultMessage
    /\ wire = <<>>
    /\ decoded = NotDecoded

CipherInit ==
    /\ key = <<>>
    /\ plain = <<>>
    /\ cipher = <<>>
    /\ recovered = <<>>

\* A default-constructed IPC Message, with the id as a number.
NoRequest ==
    [id |-> 0, sourceModule |-> "", targetModule |-> "", type |-> "NONE", payload |-> "",
     correlationId |-> 0]

HandlerInit ==
    /\ request = NoRequest
    /\ hpc = "idle"
    /\ published = <<>>
    /\ counter = 0
    /\ commands = 0

DefaultPort == 8080

\* The state ExecuteCommand works on.
ServerState(r, p, t) == [running |-> r, port |-> p, sessions |-> t]

NoResponse == [kind |-> "none"]

ServerInit ==
    /\ srvRunning = FALSE
    /\ port = DefaultPort
    /\ sessions = {}
    /\ lastCommand = <<>>
    /\ lastResponse = NoResponse
    /\ before = ServerState(FALSE, DefaultPort, {})
    /\ executed = 0

AcceptorInit ==
    /\ nmRunning = FALSE
    /\ serverSocket = "none"
    /\ acceptThread = "none"
    /\ npc = "idle"
    /\ pending = 0
    /\ nmTerminated = FALSE
    /\ netStarts = 0
    /\ startResult = "none"
    /\ lateCallback = FALSE
    /\ stopReturned = FALSE

\* No message was created yet: the counter of GenerateUniqueId is 0.
Makers == {"main", "ipc"}
IdentityInit ==
    /\ idCounter = 0
    /\ idRegistry = <<>>
    /\ idHandlers = 0
    /\ creating = [t \in Makers |-> [pc |-> "idle", id |-> <<>>, type |-> "NONE"]]
    /\ posted = <<>>
    /\ issued = <<>>
    /\ registrations = 0

\* The client sockets accept() may return, and the threads that use _sessions:
\* the accept thread, a control-channel request thread and the broker worker.
Sockets == {4, 5}
TableThreads == {"accept", "ctl", "worker"}
NoAccess == [op |-> "idle", key |-> 0]

TableInit ==
    /\ sessionTable = [k \in Sockets |-> "absent"]
    /\ tableMutex = "free"
    /\ tpc = [t \in TableThreads |-> NoAccess]
    /\ tblRunning = FALSE
    /\ tblClosed = {}
    /\ tblCrashed = FALSE

\* The threads that call Start and Stop of the broker, and the bound on the
\* worker threads created.
Callers == {"t1", "t2"}
MaxSpawns == 3

LifecycleInit ==
    /\ lcRunning = FALSE
    /\ lcThread = 0
    /\ lcWorkers = [i \in 1..MaxSpawns |-> "unborn"]
    /\ lcpc = [t \in Callers |-> "idle"]
    /\ lcTerminated = FALSE
    /\ lcSpawns = 0
    /\ lcOverlapped = FALSE

\* The detached threads IPCServerThread creates, one per request.
Requesters == {"r1", "r2"}
NoCommand == [cmd |-> "none", at |-> "idle"]

ControlInit ==
    /\ ccRunning = FALSE
    /\ ccNmRunning = FALSE
    /\ ccSocket = "none"
    /\ ccBound = FALSE
    /\ ccAccept = "none"
    /\ ccTerminated = FALSE
    /\ ccpc = [t \in Requesters |-> NoCommand]
    /\ ccResp = [t \in Requesters |-> "none"]
    /\ ccOverlapped = FALSE

\* The two loops of a Session, and a loop that is not inside RecordFrame
\* or RecordEvent.
RecorderThreads == {"screen", "input"}
NoRecord == [id |-> 0, rest |-> <<>>]

\* SessionRecorder(): _recording(false), no file.
RecorderInit ==
    /\ recording = FALSE
    /\ recordOpen = FALSE
    /\ recordFile = <<>>
    /\ recPc = [t \in RecorderThreads |-> NoRecord]
    /\ recNext = 1
    /\ recStarts = 0

SizedInit ==
    /\ sizes = <<>>
    /\ lengthBytes = <<>>
    /\ resultSize = <<>>

DeliveredInit ==
    /\ delivered = 0
    /\ dlvRequest = [type |-> "none", payload |-> <<>>]
    /\ dlvBefore = ServerState(FALSE, DefaultPort, {})
    /\ dlvPublished = <<>>

OutboundInit ==
    /\ sendKind = "none"
    /\ sendPayload = <<>>
    /\ sendBytes = <<>>
    /\ fileRest = <<>>
    /\ inFile = FALSE

Init ==
    /\ BrokerInit /\ SessionInit /\ CodecInit /\ CipherInit /\ HandlerInit /\ ServerInit
    /\ AcceptorInit /\ IdentityInit /\ TableInit /\ LifecycleInit /\ ControlInit
    /\ OutboundInit /\ DeliveredInit /\ SizedInit
    /\ reentrant = <<>>
    /\ RecorderInit

(***************************************************************************)
(* IPCBroker::Start and IPCBroker::Stop, called by the control thread.     *)
(***************************************************************************)
\* Start() on a running broker returns true and changes nothing.
Start ==
    /\ Alive /\ cpc = "idle"
    /\ ~running
    /\ running' = TRUE
    /\ wpc' = "loop"
    /\ UNCHANGED <<messageQueue, handlers, registeredModules, locks, wlocals, cpc,
                   clientVars, sendHist, dispHist, discarded, sessionVars, restVars>>

\* if (!_running) return;  _running = false;  notify_all()
StopBegin ==
    /\ Alive /\ cpc = "idle"
    /\ running
    /\ running' = FALSE
    /\ cpc' = "join"
    /\ UNCHANGED <<messageQueue, handlers, registeredModules, locks, wpc, wlocals,
                   clientVars, sendHist, dispHist, discarded, sessionVars, restVars>>

\* _processingThread.join() returns once ProcessMessages has returned.
StopJoin ==
    /\ Alive /\ cpc = "join"
    /\ wpc = "exited"
    /\ wpc' = "none"
    /\ cpc' = "clear_queue"
    /\ UNCHANGED <<running, messageQueue, handlers, registeredModules, locks, wlocals,
                   clientVars, sendHist, dispHist, discarded, sessionVars, restVars>>

StopClearQueue ==
    /\ Alive /\ cpc = "clear_queue"
    /\ messageQueue' = <<>>
    /\ discarded' = discarded \cup {messageQueue[i].id : i \in 1..Len(messageQueue)}
    /\ cpc' = "clear_handlers"
    /\ UNCHANGED <<running, handlers, registeredModules, locks, wpc, wlocals,
                   clientVars, sendHist, dispHist, sessionVars, restVars>>

StopClearHandlers ==
    /\ Alive /\ cpc = "clear_handlers"
    /\ handlersMutex = "free"
    /\ handlers' = [n \in Names |-> 0]
    /\ cpc' = "clear_modules"
    /\ UNCHANGED <<running, messageQueue, registeredModules, locks, wpc, wlocals,
                   clientVars, sendHist, dispHist, discarded, sessionVars, restVars>>

\* The last block of Stop(); Stop() returns after it.
StopClearModules ==
    /\ Alive /\ cpc = "clear_modules"
    /\ modulesMutex = "free"
    /\ registeredModules' = <<>>
    /\ cpc' = "idle"
    /\ UNCHANGED <<running, messageQueue, handlers, locks, wpc, wlocals,
                   clientVars, sendHist, dispHist, discarded, sessionVars, restVars>>

(***************************************************************************)
(* The public API called by the client threads.  A registry call leaves    *)
(* the client at "return" with the returned value in arg[c].ret, and the   *)
(* step Return(c) is the caller going on; what SendMessage returned is     *)
(* kept in sent.                                                           *)
(***************************************************************************)
Returned(c, op, n, r, w) ==
    /\ pc' = [pc EXCEPT ![c] = "return"]
    /\ arg' = [arg EXCEPT ![c] = [op |-> op, name |-> n, msg |-> NoMsg, ret |-> r, was |-> w]]

Return(c) ==
    /\ Alive /\ pc[c] = "return"
    /\ pc' = [pc EXCEPT ![c] = "idle"]
    /\ arg' = [arg EXCEPT ![c] = NoArg]
    /\ UNCHANGED <<running, messageQueue, handlers, registeredModules, locks, wpc, wlocals,
                   cpc, sendHist, dispHist, discarded, sessionVars, restVars>>

\* RegisterModule without the search for the name.
RegisterModuleNoSearch(registered, n) ==
    [modules |-> Append(registered, n), ret |-> TRUE]

\* The body of IPCBroker::RegisterModule: the vector after the call and the
\* value returned.
RegisterModuleResult(registered, n) ==
    IF Contains(registered, n)
    THEN [modules |-> registered, ret |-> FALSE]
    ELSE [modules |-> Append(registered, n), ret |-> TRUE]

\* IPCBroker::RegisterModule: one critical section of _modulesMutex.
RegisterModule(c, n) ==
    /\ Alive /\ pc[c] = "idle"
    /\ modulesMutex = "free"
    /\ LET r == RegisterModuleResult(registeredModules, n) IN
        /\ registeredModules' = r.modules
        /\ Returned(c, "RegisterModule", n, r.ret, Contains(registeredModules, n))
    /\ UNCHANGED <<running, messageQueue, handlers, locks, wpc, wlocals, cpc,
                   sendHist, dispHist, discarded, sessionVars, restVars>>

\* IPCBroker::UnregisterModule up to the inner lock_guard: the name is erased
\* and _modulesMutex stays held; or the name is not found and false is returned.
UnregisterModule(c, n) ==
    /\ Alive /\ pc[c] = "idle"
    /\ modulesMutex = "free"
    /\ IF Contains(registeredModules, n)
       THEN /\ registeredModules' = Remove(registeredModules, n)
            /\ modulesMutex' = c
            /\ pc' = [pc EXCEPT ![c] = "erase_handlers"]
            /\ arg' = [arg EXCEPT ![c] = [NoArg EXCEPT !.op = "UnregisterModule",
                                                       !.name = n, !.was = TRUE]]
       ELSE /\ Returned(c, "UnregisterModule", n, FALSE, FALSE)
            /\ UNCHANGED <<registeredModules, modulesMutex>>
    /\ UNCHANGED <<running, messageQueue, handlers, handlersMutex, wpc, wlocals, cpc,
                   sendHist, dispHist, discarded, sessionVars, restVars>>

\* The inner block of UnregisterModule: _handlers.erase(moduleName) under
\* _handlersMutex, then both locks are released and true is returned.
UnregisterEraseHandlers(c) ==
    /\ Alive /\ pc[c] = "erase_handlers"
    /\ handlersMutex = "free"
    /\ handlers' = [handlers EXCEPT ![arg[c].name] = 0]
    /\ modulesMutex' = "free"
    /\ Returned(c, "UnregisterModule", arg[c].name, TRUE, TRUE)
    /\ UNCHANGED <<running, messageQueue, registeredModules, handlersMutex, wpc, wlocals,
                   cpc, sendHist, dispHist, discarded, sessionVars, restVars>>

\* IPCBroker::RegisterHandler with a non-null handler (a null one is refused
\* and changes nothing): push_back under _handlersMutex.
RegisterHandler(c, n) ==
    /\ Alive /\ pc[c] = "idle"
    /\ handlersMutex = "free"
    /\ handlers[n] < MaxHandlers
    /\ handlers' = [handlers EXCEPT ![n] = @ + 1]
    /\ UNCHANGED <<running, messageQueue, registeredModules, locks, wpc, wlocals, cpc,
                   clientVars, sendHist, dispHist, discarded, sessionVars, restVars>>

\* SendMessage without the check of _running.
SendAcceptsStopped(run, src) == src # Empty

\* The checks of IPCBroker::SendMessage: the broker runs and the source is not empty.
SendAccepts(run, src) == run /\ src # Empty

\* IPCBroker::SendMessage up to the queue lock: the two checks.
SendMessage(c, src, tgt) ==
    /\ Alive /\ pc[c] = "idle"
    /\ nextId <= MaxMsgs
    /\ LET m == [id |-> nextId, sourceModule |-> src, targetModule |-> tgt]
           ok == SendAccepts(running, src) IN
        /\ sent' = Append(sent, [sourceModule |-> src, run |-> running,
                                 ret |-> IF ok THEN "pending" ELSE "false"])
        /\ IF ok
           THEN /\ pc' = [pc EXCEPT ![c] = "push"]
                /\ arg' = [arg EXCEPT ![c] = [NoArg EXCEPT !.op = "SendMessage", !.msg = m]]
           ELSE UNCHANGED clientVars
    /\ nextId' = nextId + 1
    /\ UNCHANGED <<running, messageQueue, handlers, registeredModules, locks, wpc, wlocals,
                   cpc, enqueued, dispHist, discarded, sessionVars, restVars>>

\* A push that loses the message.
PushLost(q, m) == q

\* _messageQueue.push(message)
Push(q, m) == Append(q, m)

\* The rest of SendMessage: push under _queueMutex, notify_one, return true.
SendPush(c) ==
    /\ Alive /\ pc[c] = "push"
    /\ messageQueue' = Push(messageQueue, arg[c].msg)
    /\ enqueued' = Append(enqueued, arg[c].msg.id)
    /\ sent' = [sent EXCEPT ![arg[c].msg.id].ret = "true"]
    /\ pc' = [pc EXCEPT ![c] = "idle"]
    /\ arg' = [arg EXCEPT ![c] = NoArg]
    /\ UNCHANGED <<running, handlers, registeredModules, locks, wpc, wlocals, cpc,
                   nextId, dispHist, discarded, sessionVars, restVars>>

(***************************************************************************)
(* IPCBroker::ProcessMessages, the worker thread.                          *)
(***************************************************************************)
\* while (_running)
WorkerLoop ==
    /\ wpc = "loop"
    /\ wpc' = IF running THEN "take" ELSE "exited"
    /\ UNCHANGED <<running, messageQueue, handlers, registeredModules, locks, wlocals,
                   cpc, clientVars, sendHist, dispHist, discarded, sessionVars, restVars>>

\* The worker taking the message pushed last.
Back(q) == q[Len(q)]

\* The message the worker takes from a non-empty queue, and what is left.
Front(q) == Head(q)
Pop(q) == Tail(q)

\* The 100 ms of a timed wait pass.
TimeoutElapses == TRUE

\* A wait with no time limit whose notification from Stop was missed: only
\* the notification of a later SendMessage ends it.
WaitUnbounded(run, q) == q # <<>>

\* _queueCondition.wait_for(lock, 100 ms, predicate) on an empty queue: it
\* returns when the predicate holds or the 100 ms have passed, so it always
\* returns; with a message queued there is no wait at all.
WaitReturns(run, q) == (~run \/ q # <<>>) \/ TimeoutElapses

\* The critical section of _queueMutex: take the front message; or, the queue
\* being empty after the bounded wait, leave the loop when stopped and start
\* the next iteration otherwise.
WorkerTake ==
    /\ wpc = "take"
    /\ WaitReturns(running, messageQueue)
    /\ IF messageQueue # <<>>
       THEN /\ message' = Front(messageQueue)
            /\ messageQueue' = Pop(messageQueue)
            /\ dispatched' = Append(dispatched, Front(messageQueue).id)
            /\ wpc' = "targets"
       ELSE /\ wpc' = IF ~running THEN "exited" ELSE "loop"
            /\ UNCHANGED <<message, messageQueue, dispatched>>
    /\ UNCHANGED <<running, handlers, registeredModules, locks, targetModules, ti, hi,
                   cpc, clientVars, sendHist, calls, threw, snapshot, invoked, discarded,
                   sessionVars, restVars>>

\* "Determine target modules": the registered modules but the source for an
\* empty target, the target itself otherwise.
Targets(m, registered) ==
    IF m.targetModule = Empty
    THEN Remove(registered, m.sourceModule)
    ELSE <<m.targetModule>>

WorkerTargets ==
    /\ wpc = "targets"
    /\ message.targetModule = Empty => modulesMutex = "free"
    /\ targetModules' = Targets(message, registeredModules)
    /\ snapshot' = registeredModules
    /\ wpc' = "lock_handlers"
    /\ UNCHANGED <<running, messageQueue, handlers, registeredModules, locks, message,
                   ti, hi, cpc, clientVars, sendHist, dispatched, calls, threw, invoked,
                   discarded, sessionVars, restVars>>

\* std::lock_guard<std::mutex> lock(_handlersMutex), held for the whole dispatch
WorkerLockHandlers ==
    /\ wpc = "lock_handlers"
    /\ handlersMutex = "free"
    /\ handlersMutex' = "worker"
    /\ ti' = 1
    /\ hi' = 1
    /\ wpc' = "dispatch"
    /\ UNCHANGED <<running, messageQueue, handlers, registeredModules, modulesMutex,
                   message, targetModules, cpc, clientVars, sendHist, dispHist,
                   discarded, sessionVars, restVars>>

\* What the try/catch around handler(message) lets out of the worker thread:
\* only a std::exception is caught.
Escapes(outcome) == outcome = "throws_other"

\* One invocation handler(message) of the inner for loop.
WorkerInvoke ==
    /\ wpc = "dispatch"
    /\ ti <= Len(targetModules)
    /\ hi <= handlers[targetModules[ti]]
    /\ \E o \in Outcomes :
        /\ calls' = Append(calls, <<targetModules[ti], hi>>)
        /\ invoked' = invoked \cup {message.id}
        /\ threw' = (threw \/ o # "returns")
        /\ IF Escapes(o)
           THEN wpc' = "terminated" /\ hi' = hi
           ELSE wpc' = wpc /\ hi' = hi + 1
    /\ UNCHANGED <<running, messageQueue, handlers, registeredModules, locks, message,
                   targetModules, ti, cpc, clientVars, sendHist, dispatched, snapshot,
                   discarded, sessionVars, restVars>>

\* The number of messages handlers publish.
MaxReentrant == 1

\* The mutex of the critical section of SendMessage: _queueMutex; and
\* _handlersMutex in its place.
SendMessageLocksHandlers == "handlers"
SendMessageLock == "queue"

\* A thread that asks for mutex m gets it at once.  The critical sections
\* of _queueMutex are the push of SendMessage and the take of the worker, and
\* neither contains a call of a handler.
LockFree(m) ==
    IF m = "queue" THEN TRUE
    ELSE IF m = "handlers" THEN handlersMutex = "free"
    ELSE modulesMutex = "free"

\* One invocation handler(message) of a handler that answers the sender as
\* the handler of the server does: it calls SendMessage with a message from
\* its module to the source of the message, then returns.
WorkerInvokePublish ==
    /\ wpc = "dispatch"
    /\ ti <= Len(targetModules)
    /\ hi <= handlers[targetModules[ti]]
    /\ Len(reentrant) < MaxReentrant
    /\ LET m == [id |-> nextId, sourceModule |-> targetModules[ti],
                 targetModule |-> message.sourceModule]
           ok == SendAccepts(running, m.sourceModule)
       IN  /\ ok => LockFree(SendMessageLock)
           /\ sent' = Append(sent, [sourceModule |-> m.sourceModule, run |-> running,
                                    ret |-> IF ok THEN "true" ELSE "false"])
           /\ messageQueue' = IF ok THEN Push(messageQueue, m) ELSE messageQueue
           /\ enqueued' = IF ok THEN Append(enqueued, m.id) ELSE enqueued
           /\ reentrant' = Append(reentrant, [id |-> m.id, during |-> message.id,
                                              accepted |-> ok,
                                              behind |-> Len(messageQueue)])
    /\ nextId' = nextId + 1
    /\ calls' = Append(calls, <<targetModules[ti], hi>>)
    /\ invoked' = invoked \cup {message.id}
    /\ hi' = hi + 1
    /\ UNCHANGED <<running, handlers, registeredModules, locks, wpc, message,
                   targetModules, ti, cpc, clientVars, dispatched, threw, snapshot,
                   discarded, sessionVars>>
    /\ UNCHANGED <<codecVars, cipherVars, handlerVars, serverVars, acceptorVars,
                   identityVars, tableVars, lifecycleVars, controlVars, outboundVars,
                   deliveredVars, sizedVars, recorderVars>>

\* The outer for loop moves to the next target module: the module has no
\* entry in _handlers, or its handlers have all been called.
WorkerNextTarget ==
    /\ wpc = "dispatch"
    /\ ti <= Len(targetModules)
    /\ hi > handlers[targetModules[ti]]
    /\ ti' = ti + 1
    /\ hi' = 1
    /\ UNCHANGED <<running, messageQueue, handlers, registeredModules, locks, wpc, message,
                   targetModules, cpc, clientVars, sendHist, dispHist, discarded,
                   sessionVars, restVars>>

\* End of the dispatch: _handlersMutex is released, the locals of the iteration
\* are destroyed and the loop starts over.
\* The lock_guard of _handlersMutex never destroyed.
HeldAfterScope(holder) == holder

\* The holder of a mutex after the scope of its lock_guard has ended.
AfterScope(holder) == "free"

WorkerEndDispatch ==
    /\ wpc = "dispatch"
    /\ ti > Len(targetModules)
    /\ handlersMutex' = AfterScope(handlersMutex)
    /\ wpc' = "loop"
    /\ message' = NoMsg
    /\ targetModules' = <<>>
    /\ ti' = 1
    /\ hi' = 1
    /\ calls' = <<>>
    /\ threw' = FALSE
    /\ snapshot' = <<>>
    /\ UNCHANGED <<running, messageQueue, handlers, registeredModules, modulesMutex,
                   cpc, clientVars, sendHist, dispatched, invoked, discarded,
                   sessionVars, restVars>>

Sources == {Empty, "A"}
Destinations == Names \cup {Empty}

ClientStep(c) ==
    \/ \E n \in Names : c \in Registrars /\ RegisterModule(c, n)
    \/ \E n \in Names : c \in Registrars /\ UnregisterModule(c, n)
    \/ UnregisterEraseHandlers(c)
    \/ \E n \in Names : c \in Registrars /\ RegisterHandler(c, n)
    \/ Return(c)
    \/ \E src \in Sources, tgt \in Destinations : SendMessage(c, src, tgt)
    \/ SendPush(c)

Next ==
    \/ Start
    \/ StopBegin
    \/ StopJoin
    \/ StopClearQueue
    \/ StopClearHandlers
    \/ StopClearModules
    \/ \E c \in Clients : ClientStep(c)
    \/ WorkerLoop
    \/ WorkerTake
    \/ WorkerTargets
    \/ WorkerLockHandlers
    \/ WorkerInvoke
    \/ WorkerNextTarget
    \/ WorkerEndDispatch

Spec == Init /\ [][Next]_vars

\* The broker with publishers and handlers only: no module is ever registered.
QueueClientStep(c) ==
    \/ \E n \in Names : c \in Registrars /\ RegisterHandler(c, n)
    \/ \E src \in Sources, tgt \in Destinations : SendMessage(c, src, tgt)
    \/ SendPush(c)

QueueNext ==
    \/ Start
    \/ StopBegin
    \/ StopJoin
    \/ StopClearQueue
    \/ StopClearHandlers
    \/ StopClearModules
    \/ \E c \in Clients : QueueClientStep(c)
    \/ WorkerLoop
    \/ WorkerTake
    \/ WorkerTargets
    \/ WorkerLockHandlers
    \/ WorkerInvoke
    \/ WorkerNextTarget
    \/ WorkerEndDispatch

QueueSpec == Init /\ [][QueueNext]_vars

\* The worker thread and the thread inside Stop are scheduled: a step of
\* theirs that stays possible is eventually taken.  Nothing obliges a client
\* to call the broker.
WorkerFairness ==
    /\ WF_vars(WorkerLoop)
    /\ WF_vars(WorkerTake)
    /\ WF_vars(WorkerTargets)
    /\ WF_vars(WorkerLockHandlers)
    /\ WF_vars(WorkerInvoke)
    /\ WF_vars(WorkerNextTarget)
    /\ WF_vars(WorkerEndDispatch)

StopFairness ==
    /\ WF_vars(StopJoin)
    /\ WF_vars(StopClearQueue)
    /\ WF_vars(StopClearHandlers)
    /\ WF_vars(StopClearModules)

\* The broker started and stopped while one client registers handlers and
\* publishes, with the worker and Stop scheduled.
ShutdownNext ==
    \/ Start
    \/ StopBegin
    \/ StopJoin
    \/ StopClearQueue
    \/ StopClearHandlers
    \/ StopClearModules
    \/ \E c \in Registrars : QueueClientStep(c)
    \/ WorkerLoop
    \/ WorkerTake
    \/ WorkerTargets
    \/ WorkerLockHandlers
    \/ WorkerInvoke
    \/ WorkerNextTarget
    \/ WorkerEndDispatch

ShutdownSpec == Init /\ [][ShutdownNext]_vars
ShutdownFairSpec == ShutdownSpec /\ WorkerFairness /\ StopFairness

\* The broker with handlers that publish: a client registers handlers and
\* publishes while the broker is started and stopped.
ReentrantNext ==
    \/ Start
    \/ StopBegin
    \/ StopJoin
    \/ StopClearQueue
    \/ StopClearHandlers
    \/ StopClearModules
    \/ \E c \in Registrars : QueueClientStep(c)
    \/ WorkerLoop
    \/ WorkerTake
    \/ WorkerTargets
    \/ WorkerLockHandlers
    \/ WorkerInvoke
    \/ WorkerInvokePublish
    \/ WorkerNextTarget
    \/ WorkerEndDispatch

ReentrantSpec == Init /\ [][ReentrantNext]_vars

\* The broker with no message published: every client thread registers and
\* unregisters modules and handlers while the broker is started and stopped.
RegistryClientStep(c) ==
    \/ \E n \in Names : RegisterModule(c, n)
    \/ \E n \in Names : UnregisterModule(c, n)
    \/ UnregisterEraseHandlers(c)
    \/ \E n \in Names : RegisterHandler(c, n)
    \/ Return(c)

RegistryNext ==
    \/ Start
    \/ StopBegin
    \/ StopJoin
    \/ StopClearQueue
    \/ StopClearHandlers
    \/ StopClearModules
    \/ \E c \in Clients : RegistryClientStep(c)
    \/ WorkerLoop
    \/ WorkerTake

RegistrySpec == Init /\ [][RegistryNext]_vars

\* The broker running, never stopped: one client thread registers and
\* unregisters module "B" and its handlers, the other publishes from "A" to
\* "B" and to every module, against the worker.
ContentionNext ==
    \/ Start
    \/ \E c \in Registrars : RegisterModule(c, "B")
    \/ \E c \in Registrars : UnregisterModule(c, "B")
    \/ \E c \in Registrars : UnregisterEraseHandlers(c)
    \/ \E c \in Registrars : RegisterHandler(c, "B")
    \/ \E c \in Registrars : Return(c)
    \/ \E c \in Clients \ Registrars, tgt \in {Empty, "B"} : SendMessage(c, "A", tgt)
    \/ \E c \in Clients \ Registrars : SendPush(c)
    \/ WorkerLoop
    \/ WorkerTake
    \/ WorkerTargets
    \/ WorkerLockHandlers
    \/ WorkerInvoke
    \/ WorkerNextTarget
    \/ WorkerEndDispatch

ContentionSpec == Init /\ [][ContentionNext]_vars

\* A client thread inside a call is scheduled, and a thread that waits for
\* a mutex which is free again and again gets it.
ClientFairness ==
    \A c \in Clients :
        /\ SF_vars(UnregisterEraseHandlers(c))
        /\ WF_vars(Return(c))
        /\ WF_vars(SendPush(c))

ContentionFairSpec == ContentionSpec /\ WorkerFairness /\ ClientFairness

(***************************************************************************)
(* EncryptionManager: Encrypt and Decrypt.                                 *)
(***************************************************************************)
KeySize == 32
MaxDataLen == 34

\* a ^ b on unsigned numbers
RECURSIVE Xor(_, _)
Xor(a, b) ==
    IF a = 0 /\ b = 0 THEN 0
    ELSE (((a % 2) + (b % 2)) % 2) + 2 * Xor(a \div 2, b \div 2)

\* Byte vectors of length n whose bytes follow one of a few progressions.
Steps == {0, 1, 85}
Offsets == {0, 7, 255}
PatternBytes(n) ==
    {[i \in 1..n |-> (first + step * (i - 1)) % 256] : first \in Offsets, step \in Steps}

\* The keys the constructor may draw, and the buffers that are encrypted:
\* empty, one byte, one byte less than the key, as long as the key, longer.
Keys == PatternBytes(KeySize)
DataLengths == {0, 1, KeySize - 1, KeySize, KeySize + 1, MaxDataLen}
Buffers == UNION {PatternBytes(n) : n \in DataLengths}

\* Encrypt with + in place of ^.
EncryptAdding(k, data) ==
    [i \in 1..Len(data) |-> (data[i] + k[((i - 1) % KeySize) + 1]) % 256]

\* EncryptionManager::Encrypt: encrypted[i] = data[i] ^ _key[i % 32]
Encrypt(k, data) ==
    [i \in 1..Len(data) |-> Xor(data[i], k[((i - 1) % KeySize) + 1])]

\* EncryptionManager::Decrypt: return Encrypt(data)
Decrypt(k, data) == Encrypt(k, data)

(***************************************************************************)
(* InputHandler::InputEvent and the bytes a peer sends to a Session.       *)
(***************************************************************************)
MaxChunks == 2
InputEventSize == 16

\* The keys the EncryptionManager of a Session may hold.
SessionKeys == {k \in Keys : k[1] = 7 /\ k[2] # 7}

\* The four bytes of an int in memory, least significant first.
IntBytes(x) == <<x % 256, (x \div 256) % 256, (x \div 65536) % 256, (x \div 16777216) % 256>>

\* The int held by four bytes of memory.
IntValue(b) ==
    b[1] + 256 * b[2] + 65536 * b[3] + 16777216 * (IF b[4] >= 128 THEN b[4] - 256 ELSE b[4])

\* The memory image of an InputEvent: type, x, y, data.
EventBytes(e) == IntBytes(e.type) \o IntBytes(e.x) \o IntBytes(e.y) \o IntBytes(e.data)

\* memcpy(&event, data.data(), sizeof(event))
DecodeEvent(data) ==
    [type |-> IntValue(SubSeq(data, 1, 4)), x |-> IntValue(SubSeq(data, 5, 8)),
     y |-> IntValue(SubSeq(data, 9, 12)), data |-> IntValue(SubSeq(data, 13, 16))]

\* The events the loop body passes on with a strict size test.
EventsOfLonger(data) ==
    IF Len(data) > InputEventSize THEN <<DecodeEvent(data)>> ELSE <<>>

\* if (data.size() >= sizeof(InputEvent)) { memcpy; RecordEvent; ProcessInput }
EventsOf(data) ==
    IF Len(data) >= InputEventSize THEN <<DecodeEvent(data)>> ELSE <<>>

\* A mouse move to a position left of the screen, and a key press.
MouseMove == [type |-> 0, x |-> 300, y |-> -2, data |-> 0]
KeyDown == [type |-> 3, x |-> 0, y |-> 0, data |-> 65]

\* What a peer may send in one piece: an encrypted event, one followed by a
\* further byte, one that lacks its last byte, and a single byte.
PeerChunks(k) ==
    {Encrypt(k, EventBytes(MouseMove)),
     Encrypt(k, EventBytes(KeyDown) \o <<9>>),
     Encrypt(k, SubSeq(EventBytes(MouseMove), 1, InputEventSize - 1)),
     <<1>>}

(***************************************************************************)
(* Session: Start, Stop and ~Session, called by the thread that owns the   *)
(* Session, and the two loop threads.                                      *)
(***************************************************************************)
SessionLive == terminated = "no" /\ destroyed # "destroyed"

\* Session::Start.  Assigning a new std::thread to a member that is still
\* joinable calls std::terminate, after the new thread has been created.
SessionStart ==
    /\ SessionLive /\ spc = "idle" /\ destroyed = "alive"
    /\ starts < MaxStarts
    /\ starts' = starts + 1
    /\ sinceStop' = sinceStop + 1
    /\ IF sessRunning
       THEN /\ lastStart' = "false"
            /\ UNCHANGED <<sessRunning, screenThread, inputThread, screenLoops,
                           inputLoops, terminated>>
       ELSE /\ sessRunning' = TRUE
            /\ screenLoops' = screenLoops + 1
            /\ IF screenThread # "none"
               THEN /\ terminated' = "Start"
                    /\ lastStart' = "none"
                    /\ UNCHANGED <<screenThread, inputThread, inputLoops>>
               ELSE /\ screenThread' = "check"
                    /\ inputThread' = "check"
                    /\ inputLoops' = inputLoops + 1
                    /\ lastStart' = "true"
                    /\ UNCHANGED terminated
    /\ IF sessKey = <<>> THEN sessKey' \in SessionKeys ELSE UNCHANGED sessKey
    /\ UNCHANGED <<clientSocket, peer, spc, destroyed, closes, closedEarly, brokerVars,
                   restVars, chunk, sentChunks, nReceived, injected>>

\* The first lines of Session::Stop: if (!_running) return; _running = false;
StopEntry ==
    /\ sinceStop' = 0
    /\ IF sessRunning
       THEN sessRunning' = FALSE /\ spc' = "join_screen"
       ELSE sessRunning' = sessRunning /\ spc' = "return"

SessionStop ==
    /\ SessionLive /\ spc = "idle" /\ destroyed = "alive"
    /\ StopEntry
    /\ UNCHANGED <<screenThread, inputThread, screenLoops, inputLoops, clientSocket,
                   peer, destroyed, terminated, starts, lastStart, closes, closedEarly,
                   brokerVars, restVars, inputVars>>

\* ~Session(): its body is the call Stop().
SessionDestructor ==
    /\ SessionLive /\ spc = "idle" /\ destroyed = "alive"
    /\ destroyed' = "destroying"
    /\ StopEntry
    /\ UNCHANGED <<screenThread, inputThread, screenLoops, inputLoops, clientSocket,
                   peer, terminated, starts, lastStart, closes, closedEarly, brokerVars, restVars, inputVars>>

\* if (_screenThread.joinable()) _screenThread.join();
SessionJoinScreen ==
    /\ SessionLive /\ spc = "join_screen"
    /\ screenThread \in {"none", "done"}
    /\ screenLoops' = IF screenThread = "done" THEN screenLoops - 1 ELSE screenLoops
    /\ screenThread' = "none"
    /\ spc' = "join_input"
    /\ UNCHANGED <<sessRunning, inputThread, inputLoops, clientSocket, peer, destroyed,
                   terminated, starts, sinceStop, lastStart, closes, closedEarly,
                   brokerVars, restVars, inputVars>>

\* if (_inputThread.joinable()) _inputThread.join();
SessionJoinInput ==
    /\ SessionLive /\ spc = "join_input"
    /\ inputThread \in {"none", "done"}
    /\ inputLoops' = IF inputThread = "done" THEN inputLoops - 1 ELSE inputLoops
    /\ inputThread' = "none"
    /\ spc' = "close"
    /\ UNCHANGED <<sessRunning, screenThread, screenLoops, clientSocket, peer, destroyed,
                   terminated, starts, sinceStop, lastStart, closes, closedEarly,
                   brokerVars, restVars, inputVars>>

\* close(_clientSocket)
SessionClose ==
    /\ SessionLive /\ spc = "close"
    /\ clientSocket' = "closed"
    /\ closes' = closes + 1
    /\ closedEarly' = (closedEarly \/ screenLoops > 0 \/ inputLoops > 0)
    /\ spc' = "return"
    /\ UNCHANGED <<sessRunning, screenThread, inputThread, screenLoops, inputLoops, peer,
                   destroyed, terminated, starts, sinceStop, lastStart, brokerVars, restVars, inputVars>>

\* Stop() returns to its caller.
SessionStopReturn ==
    /\ SessionLive /\ spc = "return" /\ destroyed = "alive"
    /\ spc' = "idle"
    /\ UNCHANGED <<sessRunning, screenThread, inputThread, screenLoops, inputLoops,
                   clientSocket, peer, destroyed, terminated, starts, sinceStop,
                   lastStart, closes, closedEarly, brokerVars, restVars, inputVars>>

\* Stop() returns to ~Session, which destroys the members: the destructor of
\* a joinable std::thread calls std::terminate.
SessionDestroyMembers ==
    /\ SessionLive /\ spc = "return" /\ destroyed = "destroying"
    /\ spc' = "idle"
    /\ IF screenThread # "none" \/ inputThread # "none"
       THEN terminated' = "~Session" /\ UNCHANGED destroyed
       ELSE destroyed' = "destroyed" /\ UNCHANGED terminated
    /\ UNCHANGED <<sessRunning, screenThread, inputThread, screenLoops, inputLoops,
                   clientSocket, peer, starts, sinceStop, lastStart, closes, closedEarly,
                   brokerVars, restVars, inputVars>>

\* ScreenCaptureLoop: while (_running)
ScreenCheck ==
    /\ terminated = "no" /\ screenThread = "check"
    /\ screenThread' = IF sessRunning THEN "body" ELSE "done"
    /\ UNCHANGED <<sessRunning, inputThread, screenLoops, inputLoops, clientSocket, peer,
                   spc, destroyed, terminated, starts, sinceStop, lastStart, closes,
                   closedEarly, brokerVars, restVars, inputVars>>

\* ScreenCaptureLoop: capture, record, encrypt, send, sleep
ScreenBody ==
    /\ terminated = "no" /\ screenThread = "body"
    /\ screenThread' = "check"
    /\ UNCHANGED <<sessRunning, inputThread, screenLoops, inputLoops, clientSocket, peer,
                   spc, destroyed, terminated, starts, sinceStop, lastStart, closes,
                   closedEarly, brokerVars, restVars, inputVars>>

\* InputProcessingLoop: while (_running)
InputCheck ==
    /\ terminated = "no" /\ inputThread = "check"
    /\ inputThread' = IF sessRunning THEN "recv" ELSE "done"
    /\ UNCHANGED <<sessRunning, screenThread, screenLoops, inputLoops, clientSocket, peer,
                   spc, destroyed, terminated, starts, sinceStop, lastStart, closes,
                   closedEarly, brokerVars, restVars, inputVars>>

\* NetworkManager::ReceiveData returns an empty vector when recv returns 0
\* (the peer closed the connection) or fails (the socket was closed).
ReceiveIsEmpty == peer = "disconnected" \/ clientSocket = "closed"

\* Bytes the peer sent are waiting to be received.
DataWaiting == nReceived < Len(sentChunks)

\* InputProcessingLoop: one ReceiveData.  recv returns the chunk that waits;
\* with none waiting it returns empty once the peer has closed the connection
\* or the socket is closed, and blocks otherwise.  On an empty result
\* _running = false and the loop is left.
InputReceive ==
    /\ terminated = "no" /\ inputThread = "recv"
    /\ IF DataWaiting /\ clientSocket = "open"
       THEN /\ chunk' = sentChunks[nReceived + 1]
            /\ nReceived' = nReceived + 1
            /\ inputThread' = "process"
            /\ UNCHANGED sessRunning
       ELSE /\ ReceiveIsEmpty
            /\ sessRunning' = FALSE
            /\ inputThread' = "done"
            /\ UNCHANGED <<chunk, nReceived>>
    /\ UNCHANGED <<screenThread, screenLoops, inputLoops, clientSocket, peer,
                   spc, destroyed, terminated, starts, sinceStop, lastStart, closes,
                   closedEarly, brokerVars, restVars, sessKey, sentChunks, injected>>

\* InputProcessingLoop, the rest of the body: decrypt the chunk and, when it
\* holds at least sizeof(InputEvent) bytes, copy the event out of its first
\* bytes and pass it to ProcessInput.
InputProcess ==
    /\ terminated = "no" /\ inputThread = "process"
    /\ injected' = injected \o EventsOf(Decrypt(sessKey, chunk))
    /\ chunk' = <<>>
    /\ inputThread' = "check"
    /\ UNCHANGED <<sessRunning, screenThread, screenLoops, inputLoops, clientSocket, peer,
                   spc, destroyed, terminated, starts, sinceStop, lastStart, closes,
                   closedEarly, brokerVars, restVars, sessKey, sentChunks, nReceived>>

\* The peer sends a chunk of bytes.
PeerSends ==
    /\ terminated = "no" /\ peer = "connected" /\ sessKey # <<>>
    /\ Len(sentChunks) < MaxChunks
    /\ \E c \in PeerChunks(sessKey) : sentChunks' = Append(sentChunks, c)
    /\ UNCHANGED <<sessRunning, screenThread, inputThread, screenLoops, inputLoops,
                   clientSocket, peer, spc, destroyed, terminated, starts, sinceStop,
                   lastStart, closes, closedEarly, brokerVars, restVars, sessKey, chunk,
                   nReceived, injected>>

\* The remote end closes the connection.
PeerDisconnect ==
    /\ terminated = "no" /\ peer = "connected"
    /\ peer' = "disconnected"
    /\ UNCHANGED <<sessRunning, screenThread, inputThread, screenLoops, inputLoops,
                   clientSocket, spc, destroyed, terminated, starts, sinceStop, lastStart,
                   closes, closedEarly, brokerVars, restVars, inputVars>>

SessionNext ==
    \/ SessionStart
    \/ SessionStop
    \/ SessionDestructor
    \/ SessionJoinScreen
    \/ SessionJoinInput
    \/ SessionClose
    \/ SessionStopReturn
    \/ SessionDestroyMembers
    \/ ScreenCheck
    \/ ScreenBody
    \/ InputCheck
    \/ InputReceive
    \/ InputProcess
    \/ PeerSends
    \/ PeerDisconnect

SessionSpec == Init /\ [][SessionNext]_vars

\* The two loops run on threads of their own, which the scheduler does not
\* starve: each step of a loop that stays possible is eventually taken.
SessionFairness ==
    /\ WF_vars(ScreenCheck)
    /\ WF_vars(ScreenBody)
    /\ WF_vars(InputCheck)
    /\ WF_vars(InputReceive)
    /\ WF_vars(InputProcess)

SessionFairSpec == SessionSpec /\ SessionFairness

\* The thread that called Stop is scheduled as well: a join whose thread has
\* ended returns, and the close that follows is made.
SessionStopFairness ==
    /\ WF_vars(SessionJoinScreen)
    /\ WF_vars(SessionJoinInput)
    /\ WF_vars(SessionClose)

SessionStopFairSpec == SessionFairSpec /\ SessionStopFairness

(***************************************************************************)
(* SerializableMessage: Serialize and Deserialize.  A byte vector is a     *)
(* sequence of numbers in 0..255; data[i] of the code is data[i + 1] here. *)
(***************************************************************************)
MaxNameLen == 1
MaxContentLen == 2
HeaderSize == 17

Chars == {65, 66}
MessageTypes == {0, 2, 255}
Timestamps == {0, 1, 513}
\* Length fields an altered header declares, as their bytes: 0, 1 and the
\* largest value of the field.
TamperedLen16 == {<<0, 0>>, <<1, 0>>, <<255, 255>>}
TamperedLen32 == {<<0, 0, 0, 0>>, <<1, 0, 0, 0>>, <<0, 0, 1, 0>>, <<255, 255, 255, 255>>}

StringsUpTo(n) == UNION {[1..k -> Chars] : k \in 0..n}

\* The messages that are serialized.
Frames ==
    [type : MessageTypes, source : StringsUpTo(MaxNameLen), target : StringsUpTo(MaxNameLen),
     content : StringsUpTo(MaxContentLen), timestamp : Timestamps]

\* x >> (8 * n)
RECURSIVE ShiftRightBytes(_, _)
ShiftRightBytes(x, n) == IF n = 0 THEN x ELSE ShiftRightBytes(x \div 256, n - 1)

\* The n bytes of x, least significant first: (x >> (i * 8)) & 0xFF.
LittleEndianBytes(x, n) == [i \in 1..n |-> ShiftRightBytes(x, i - 1) % 256]

\* b[0] | (b[1] << 8) | ...
RECURSIVE LittleEndianValue(_)
LittleEndianValue(b) == IF b = <<>> THEN 0 ELSE Head(b) + 256 * LittleEndianValue(Tail(b))

\* SerializableMessage::Serialize
Serialize(m) ==
    LET sourceLen == Len(m.source) % 65536
        targetLen == Len(m.target) % 65536
        contentLen == Len(m.content)
    IN  <<m.type % 256>>
            \o LittleEndianBytes(sourceLen, 2)
            \o LittleEndianBytes(targetLen, 2)
            \o LittleEndianBytes(contentLen, 4)
            \o LittleEndianBytes(m.timestamp, 8)
            \o m.source \o m.target \o m.content

\* The length fields read from a buffer of at least 17 bytes.  contentLen is a
\* uint32_t, kept as its two 16-bit halves.
SourceLen(data) == LittleEndianValue(SubSeq(data, 2, 3))
TargetLen(data) == LittleEndianValue(SubSeq(data, 4, 5))
ContentLenLow(data) == LittleEndianValue(SubSeq(data, 6, 7))
ContentLenHigh(data) == LittleEndianValue(SubSeq(data, 8, 9))

\* size_t expectedSize = 17 + sourceLen + targetLen + contentLen: the sum has
\* the type of contentLen, unsigned 32 bits, and wraps at 2^32.
ExpectedSize(data) ==
    LET small == HeaderSize + SourceLen(data) + TargetLen(data)
        low == (small % 65536) + ContentLenLow(data)
        high == (small \div 65536) + ContentLenHigh(data) + (low \div 65536)
    IN  [high |-> high % 65536, low |-> low % 65536]

\* data.size() < expectedSize, for a buffer shorter than 2^16 bytes
SizeBelowExpected(data) ==
    ExpectedSize(data).high > 0 \/ Len(data) < ExpectedSize(data).low

\* Deserialize returns without reading a field: one of the two early returns.
Rejects(data) == Len(data) < HeaderSize \/ SizeBelowExpected(data)

\* The indices Deserialize passes to data[...] after the size check.
SourceOffset(data) == HeaderSize
TargetOffset(data) == HeaderSize + SourceLen(data)
ContentOffset(data) == HeaderSize + SourceLen(data) + TargetLen(data)
Subscripts(data) ==
    (0..(HeaderSize - 1)) \cup
        (IF Rejects(data) THEN {}
         ELSE {SourceOffset(data), TargetOffset(data), ContentOffset(data)})

\* msg.content.assign(&data[offset], contentLen) copies bytes from beyond the
\* end of the buffer.
CopiesPastEnd(data) ==
    /\ ~Rejects(data)
    /\ \/ ContentLenHigh(data) > 0
       \/ ContentOffset(data) + ContentLenLow(data) > Len(data)

\* Some data[i] has i >= data.size().
SubscriptPastEnd(data) ==
    /\ Len(data) >= HeaderSize
    /\ \E i \in Subscripts(data) : i >= Len(data)

\* string::assign(&data[offset], n)
Slice(data, offset, n) == SubSeq(data, offset + 1, offset + n)

\* What Deserialize returns when every access is inside the buffer or copies
\* nothing.
Deserialize(data) ==
    IF Rejects(data)
    THEN DefaultMessage
    ELSE [type |-> data[1],
          source |-> Slice(data, SourceOffset(data), SourceLen(data)),
          target |-> Slice(data, TargetOffset(data), TargetLen(data)),
          content |-> Slice(data, ContentOffset(data), ContentLenLow(data)),
          timestamp |-> LittleEndianValue(SubSeq(data, 10, 17))]

Crashed == [status |-> "crashed", msg |-> DefaultMessage]

\* The ways a call of Deserialize can end.  An access outside the buffer is
\* undefined behaviour: a copy from beyond the end faults or fails to
\* allocate; data[data.size()] with nothing copied from it either goes
\* unnoticed or is caught by a checked operator[] (assertions of the standard
\* library), which aborts.
DeserializeOutcomes(data) ==
    IF CopiesPastEnd(data)
    THEN {Crashed}
    ELSE {[status |-> "returned", msg |-> Deserialize(data)]}
            \cup (IF SubscriptPastEnd(data) THEN {Crashed} ELSE {})

\* A message is serialized.
SerializeFrame ==
    /\ wire = <<>> /\ decoded.status = "none"
    /\ \E m \in Frames :
        /\ frame' = m
        /\ wire' = Serialize(m)
    /\ UNCHANGED <<decoded, otherThanCodec>>

\* The buffer that arrives is a prefix of the one that was sent.
TruncateWire ==
    /\ wire # <<>> /\ wire = Serialize(frame) /\ decoded.status = "none"
    /\ \E n \in 0..(Len(wire) - 1) : wire' = SubSeq(wire, 1, n)
    /\ UNCHANGED <<frame, decoded, otherThanCodec>>

\* The bytes of data with b written over them from index first.
Overwrite(data, first, b) ==
    [i \in 1..Len(data) |->
        IF i > first /\ i <= first + Len(b) THEN b[i - first] ELSE data[i]]

\* The buffer that arrives declares another length in one of its length fields.
TamperWire ==
    /\ wire # <<>> /\ wire = Serialize(frame) /\ decoded.status = "none"
    /\ \/ \E b \in TamperedLen16 : wire' = Overwrite(wire, 1, b)
       \/ \E b \in TamperedLen16 : wire' = Overwrite(wire, 3, b)
       \/ \E b \in TamperedLen32 : wire' = Overwrite(wire, 5, b)
    /\ UNCHANGED <<frame, decoded, otherThanCodec>>

\* The buffer that arrives has a byte after the frame.
ExtendWire ==
    /\ wire # <<>> /\ wire = Serialize(frame) /\ decoded.status = "none"
    /\ wire' = Append(wire, 0)
    /\ UNCHANGED <<frame, decoded, otherThanCodec>>

\* SerializableMessage::Deserialize(wire)
DeserializeWire ==
    /\ decoded.status = "none"
    /\ decoded' \in DeserializeOutcomes(wire)
    /\ UNCHANGED <<frame, wire, otherThanCodec>>

CodecNext ==
    \/ SerializeFrame
    \/ TruncateWire
    \/ TamperWire
    \/ ExtendWire
    \/ DeserializeWire

CodecSpec == Init /\ [][CodecNext]_vars

(***************************************************************************)
(* EncryptionManager used on its own: a key is drawn, a buffer encrypted   *)
(* and the result decrypted.                                               *)
(***************************************************************************)
\* EncryptionManager::EncryptionManager draws the 32 bytes of the key.
CreateKey ==
    /\ key = <<>>
    /\ key' \in Keys
    /\ UNCHANGED <<plain, cipher, recovered, otherThanCipher>>

EncryptData ==
    /\ key # <<>> /\ recovered = <<>> /\ plain = <<>> /\ cipher = <<>>
    /\ \E data \in Buffers :
        /\ plain' = data
        /\ cipher' = Encrypt(key, data)
    /\ UNCHANGED <<key, recovered, otherThanCipher>>

DecryptData ==
    /\ key # <<>> /\ recovered = <<>>
    /\ recovered' = <<Decrypt(key, cipher)>>
    /\ UNCHANGED <<key, plain, cipher, otherThanCipher>>

CipherNext ==
    \/ CreateKey
    \/ EncryptData
    \/ DecryptData

CipherSpec == Init /\ [][CipherNext]_vars

(***************************************************************************)
(* The handler RemoteDesktopServer::RegisterWithAgentCore registers under  *)
(* "RemoteDesktopServer", called by the worker of the broker.              *)
(***************************************************************************)
MaxCommands == 2

ServerName == "RemoteDesktopServer"
Senders == {"AgentCore", "Monitor"}
\* The registry after RegisterWithAgentCore, with the senders registered.
ServerRegistry == <<"AgentCore", "Monitor", ServerName>>
RequestTypes == {"COMMAND", "STATUS"}
Payloads == {"status", "restart"}

\* Message::CreateCommand, with the type of the message as a parameter
CreateCommand(id, source, target, type, command) ==
    [id |-> id, sourceModule |-> source, targetModule |-> target, type |-> type,
     payload |-> command, correlationId |-> 0]

\* Message::CreateResponse
CreateResponse(id, req, response) ==
    [id |-> id, sourceModule |-> req.targetModule, targetModule |-> req.sourceModule,
     type |-> "RESPONSE", payload |-> response, correlationId |-> req.id]

\* Message::CreateStatus
CreateStatus(id, source, status) ==
    [id |-> id, sourceModule |-> source, targetModule |-> "", type |-> "STATUS",
     payload |-> status, correlationId |-> 0]

\* The result of g_ipcBroker->SendMessage(m), as the handler sees it.
Publish(m) == [msg |-> m, accepted |-> SendAccepts(running, m.sourceModule)]

\* ProcessCommandFromAgentCore: a command with "status" in it sends a status
\* message (SendStatusToAgentCore); the messages it publishes, given the
\* value of the id counter.
ProcessCommandFromAgentCore(command, c) ==
    IF command = "status"
    THEN <<Publish(CreateStatus(c + 1, ServerName, "online"))>>
    ELSE <<>>

\* A sender publishes a message the broker accepts, and the worker, having
\* taken it from the queue, calls the handler of the server with it: the
\* server is among its targets.
DeliverToServer ==
    /\ Alive /\ running /\ wpc = "loop"
    /\ hpc \in {"idle", "done"}
    /\ commands < MaxCommands
    /\ \E source \in Senders, target \in {Empty, ServerName}, type \in RequestTypes,
          command \in Payloads :
        LET m == CreateCommand(counter + 1, source, target, type, command) IN
            /\ SendAccepts(running, m.sourceModule)
            /\ Contains(Targets(m, ServerRegistry), ServerName)
            /\ request' = m
    /\ counter' = counter + 1
    /\ commands' = commands + 1
    /\ published' = <<>>
    /\ hpc' = "handling"
    /\ UNCHANGED <<brokerVars, otherThanHandler>>

\* The body of the handler.
ServerHandler ==
    /\ Alive /\ hpc = "handling"
    /\ IF request.type = "COMMAND"
       THEN LET status == ProcessCommandFromAgentCore(request.payload, counter)
                c == counter + Len(status)
            IN  /\ published' = status \o
                        <<Publish(CreateResponse(c + 1, request, "Command processed"))>>
                /\ counter' = c + 1
       ELSE UNCHANGED <<published, counter>>
    /\ hpc' = "done"
    /\ UNCHANGED <<request, commands, brokerVars, otherThanHandler>>

HandlerNext ==
    \/ Start
    \/ StopBegin
    \/ DeliverToServer
    \/ ServerHandler

HandlerSpec == Init /\ [][HandlerNext]_vars

(***************************************************************************)
(* RemoteDesktopServer::ExecuteCommand.  A std::string is the sequence of  *)
(* its characters.                                                         *)
(***************************************************************************)
MaxExecuted == 3

Text_status == <<"s", "t", "a", "t", "u", "s">>
Text_start == <<"s", "t", "a", "r", "t">>
Text_stop == <<"s", "t", "o", "p">>
Text_setport == <<"s", "e", "t", "p", "o", "r", "t", ":", " ">>
Text_list_sessions == <<"l", "i", "s", "t", "_", "s", "e", "s", "s", "i", "o", "n", "s">>
Text_disconnect_session == <<"d", "i", "s", "c", "o", "n", "n", "e", "c", "t", "_", "s", "e", "s", "s", "i", "o", "n", ":">>

\* The keys of the Session Table.
SessionIds == {<<"7">>, <<"9">>}

PortTexts == {<<"9", "0", "0", "0">>, <<"0">>, <<"6", "5", "5", "3", "6">>, <<"x", "1">>, <<>>}

\* The texts handed to ExecuteCommand: the commands, and texts close to them.
CommandTexts ==
    {Text_status, Text_start, Text_stop, Text_list_sessions}
        \cup {Text_setport \o t : t \in PortTexts}
        \cup {Text_disconnect_session \o id : id \in SessionIds \cup {<<"8">>}}
        \cup {<<"b", "o", "g", "u", "s">>, <<"s", "t", "a", "t", "u">>, <<"s", "e", "t", "p", "o", "r", "t", ":", "1">>, <<"d", "i", "s", "c", "o", "n", "n", "e", "c", "t", "_", "s", "e", "s", "s", "i">>, <<>>}

\* s.substr(pos, n), for pos <= s.size()
Substr(str, pos, n) ==
    SubSeq(str, pos + 1, IF pos + n < Len(str) THEN pos + n ELSE Len(str))

\* s.compare(pos, n, lit) == 0: the substring of at most n characters from
\* pos is the whole of lit.
CompareIsZero(str, pos, n, lit) == Substr(str, pos, n) = lit

DigitValue ==
    [c \in {"0", "1", "2", "3", "4", "5", "6", "7", "8", "9"} |->
        CASE c = "0" -> 0 [] c = "1" -> 1 [] c = "2" -> 2 [] c = "3" -> 3 [] c = "4" -> 4
          [] c = "5" -> 5 [] c = "6" -> 6 [] c = "7" -> 7 [] c = "8" -> 8 [] c = "9" -> 9]

\* The digits at the start of a text.
RECURSIVE LeadingDigits(_)
LeadingDigits(str) ==
    IF str # <<>> /\ Head(str) \in DOMAIN DigitValue
    THEN <<Head(str)>> \o LeadingDigits(Tail(str))
    ELSE <<>>

RECURSIVE DecimalValue(_)
DecimalValue(digits) ==
    IF digits = <<>> THEN 0
    ELSE 10 * DecimalValue(SubSeq(digits, 1, Len(digits) - 1))
            + DigitValue[digits[Len(digits)]]

\* std::stoi on a text without sign or leading blanks and of at most 9
\* digits: the value of the leading digits; std::invalid_argument when there
\* are none.
Stoi(str) ==
    IF LeadingDigits(str) = <<>>
    THEN [threw |-> TRUE, value |-> 0]
    ELSE [threw |-> FALSE, value |-> DecimalValue(LeadingDigits(str))]

Failure(text) == [kind |-> "result", success |-> FALSE, message |-> text]
Success(text) == [kind |-> "result", success |-> TRUE, message |-> text]
UnknownCommand == Failure("Unknown command")

\* The test of the last else-if of ExecuteCommand with the length of the
\* literal, 19, in place of 16.
IsDisconnectWholeLiteral(cmd) == CompareIsZero(cmd, 0, 19, Text_disconnect_session)

\* cmd.compare(0, 16, "disconnect_session:") == 0
IsDisconnect(cmd) == CompareIsZero(cmd, 0, 16, Text_disconnect_session)

\* RemoveSession(id): erase the id from the table, true when it was there.
RemoveSession(table, id) ==
    [found |-> id \in table, sessions |-> table \ {id}]

\* ExecuteCommand with non-null arguments: the response and the state after
\* it.  started says whether Start(_port), when called, succeeds.
ExecuteCommand(cmd, st, started) ==
    IF cmd = Text_status
    THEN [response |-> [kind |-> "status", running |-> st.running, port |-> st.port,
                        sessions |-> Cardinality(st.sessions)],
          state |-> st]
    ELSE IF cmd = Text_start
    THEN IF st.running
         THEN [response |-> Failure("Server already running"), state |-> st]
         ELSE IF started
              THEN [response |-> Success("Server started"),
                    state |-> [st EXCEPT !.running = TRUE]]
              ELSE [response |-> Failure("Failed to start server"), state |-> st]
    ELSE IF cmd = Text_stop
    THEN IF ~st.running
         THEN [response |-> Failure("Server not running"), state |-> st]
         ELSE [response |-> Success("Server stopped"),
               state |-> [st EXCEPT !.running = FALSE, !.sessions = {}]]
    ELSE IF CompareIsZero(cmd, 0, 9, Text_setport)
    THEN LET parsed == Stoi(Substr(cmd, 9, Len(cmd))) IN
         IF parsed.threw
         THEN [response |-> Failure("Invalid port format"), state |-> st]
         ELSE IF parsed.value > 0 /\ parsed.value < 65536
              THEN [response |-> Success("Port set"),
                    state |-> [st EXCEPT !.port = parsed.value]]
              ELSE [response |-> Failure("Invalid port number"), state |-> st]
    ELSE IF cmd = Text_list_sessions
    THEN [response |-> [kind |-> "sessions", ids |-> st.sessions], state |-> st]
    ELSE IF IsDisconnect(cmd)
    THEN LET r == RemoveSession(st.sessions, Substr(cmd, 16, Len(cmd))) IN
         [response |-> IF r.found THEN Success("Session disconnected")
                                  ELSE Failure("Session not found"),
          state |-> [st EXCEPT !.sessions = r.sessions]]
    ELSE [response |-> UnknownCommand, state |-> st]

\* A call of ExecuteCommand from the control plane.
Execute ==
    /\ executed < MaxExecuted
    /\ \E cmd \in CommandTexts, started \in BOOLEAN :
        LET st == ServerState(srvRunning, port, sessions)
            r == ExecuteCommand(cmd, st, started)
        IN  /\ lastCommand' = cmd
            /\ before' = st
            /\ lastResponse' = r.response
            /\ srvRunning' = r.state.running
            /\ port' = r.state.port
            /\ sessions' = r.state.sessions
    /\ executed' = executed + 1
    /\ UNCHANGED otherThanServer

\* HandleNewConnection: the accept thread puts a new Session in the table.
HandleNewConnection ==
    /\ srvRunning
    /\ \E id \in SessionIds \ sessions : sessions' = sessions \cup {id}
    /\ UNCHANGED <<srvRunning, port, lastCommand, lastResponse, before, executed, otherThanServer>>

ServerNext ==
    \/ Execute
    \/ HandleNewConnection

ServerSpec == Init /\ [][ServerNext]_vars

(***************************************************************************)
(* NetworkManager: Start, Stop and the accept thread.                      *)
(***************************************************************************)
MaxNetStarts == 2
MaxPeers == 2

\* The system call of Start that fails, if any.
StartFailures == {"none", "socket", "bind", "listen"}

\* NetworkManager::Start.  _running is set before the socket is created; a
\* failed bind or listen closes the socket; assigning the new thread to an
\* _acceptThread that is still joinable calls std::terminate.
NetStart(failure) ==
    /\ ~nmTerminated /\ npc = "idle"
    /\ netStarts < MaxNetStarts
    /\ netStarts' = netStarts + 1
    /\ stopReturned' = FALSE
    /\ nmRunning' = TRUE
    /\ serverSocket' = CASE failure = "socket" -> "none"
                          [] failure \in {"bind", "listen"} -> "closed"
                          [] OTHER -> "listening"
    /\ IF failure # "none"
       THEN startResult' = "false" /\ UNCHANGED <<acceptThread, nmTerminated>>
       ELSE IF acceptThread # "none"
            THEN /\ nmTerminated' = TRUE
                 /\ UNCHANGED <<acceptThread, startResult>>
            ELSE /\ acceptThread' = "check"
                 /\ startResult' = "true"
                 /\ UNCHANGED nmTerminated
    /\ UNCHANGED <<npc, pending, lateCallback, otherThanAcceptor>>

\* NetworkManager::Stop: _running = false
NetStop ==
    /\ ~nmTerminated /\ npc = "idle"
    /\ nmRunning' = FALSE
    /\ npc' = "join"
    /\ UNCHANGED <<serverSocket, acceptThread, pending, nmTerminated, netStarts,
                   startResult, lateCallback, stopReturned, otherThanAcceptor>>

\* if (_acceptThread.joinable()) _acceptThread.join();
NetStopJoin ==
    /\ ~nmTerminated /\ npc = "join"
    /\ acceptThread \in {"none", "done"}
    /\ acceptThread' = "none"
    /\ npc' = "close"
    /\ UNCHANGED <<nmRunning, serverSocket, pending, nmTerminated, netStarts,
                   startResult, lateCallback, stopReturned, otherThanAcceptor>>

\* close(_serverSocket), and Stop returns
NetStopClose ==
    /\ ~nmTerminated /\ npc = "close"
    /\ serverSocket' = "closed"
    /\ npc' = "idle"
    /\ stopReturned' = TRUE
    /\ UNCHANGED <<nmRunning, acceptThread, pending, nmTerminated, netStarts,
                   startResult, lateCallback, otherThanAcceptor>>

\* AcceptConnections: while (_running)
AcceptCheck ==
    /\ ~nmTerminated /\ acceptThread = "check"
    /\ acceptThread' = IF nmRunning THEN "accept" ELSE "done"
    /\ UNCHANGED <<nmRunning, serverSocket, npc, pending, nmTerminated, netStarts,
                   startResult, lateCallback, stopReturned, otherThanAcceptor>>

\* accept(_serverSocket, ...) returns: with the connection of a peer that was
\* waiting, or with an error when the socket is not a listening one.  It
\* blocks while the socket listens and no peer is waiting.
AcceptReturns ==
    /\ ~nmTerminated /\ acceptThread = "accept"
    /\ \/ /\ serverSocket = "listening" /\ pending > 0
          /\ pending' = pending - 1
          /\ acceptThread' = "callback"
       \/ /\ serverSocket # "listening"
          /\ acceptThread' = "check"
          /\ UNCHANGED pending
    /\ UNCHANGED <<nmRunning, serverSocket, npc, nmTerminated, netStarts,
                   startResult, lateCallback, stopReturned, otherThanAcceptor>>

\* _connectionCallback(clientSocket)
AcceptCallback ==
    /\ ~nmTerminated /\ acceptThread = "callback"
    /\ lateCallback' = (lateCallback \/ stopReturned)
    /\ acceptThread' = "check"
    /\ UNCHANGED <<nmRunning, serverSocket, npc, pending, nmTerminated, netStarts,
                   startResult, stopReturned, otherThanAcceptor>>

\* A peer connects to the listening socket.
PeerConnects ==
    /\ ~nmTerminated /\ serverSocket = "listening"
    /\ pending < MaxPeers
    /\ pending' = pending + 1
    /\ UNCHANGED <<nmRunning, serverSocket, acceptThread, npc, nmTerminated, netStarts,
                   startResult, lateCallback, stopReturned, otherThanAcceptor>>

AcceptorNext ==
    \/ \E failure \in StartFailures : NetStart(failure)
    \/ NetStop
    \/ NetStopJoin
    \/ NetStopClose
    \/ AcceptCheck
    \/ AcceptReturns
    \/ AcceptCallback
    \/ PeerConnects

AcceptorSpec == Init /\ [][AcceptorNext]_vars

\* The thread inside Stop and the accept thread are scheduled; no peer is
\* obliged to connect.
AcceptorFairness ==
    /\ WF_vars(NetStopJoin)
    /\ WF_vars(NetStopClose)
    /\ WF_vars(AcceptCheck)
    /\ WF_vars(AcceptReturns)
    /\ WF_vars(AcceptCallback)

AcceptorFairSpec == AcceptorSpec /\ AcceptorFairness

(***************************************************************************)
(* Message ids: Message::Create*, GenerateUniqueId and the registration    *)
(* message of RemoteDesktopServer::RegisterWithAgentCore, on two threads.  *)
(***************************************************************************)
MaxIds == 3
MaxRegistrations == 2

CreatedTypes == {"RESPONSE", "STATUS"}
DigitChars == <<"0", "1", "2", "3", "4", "5", "6", "7", "8", "9">>

\* std::to_string of an unsigned number
RECURSIVE StdToString(_)
StdToString(n) ==
    IF n < 10 THEN <<DigitChars[n + 1]>>
    ELSE StdToString(n \div 10) \o <<DigitChars[(n % 10) + 1]>>

\* GenerateUniqueId: std::to_string(++counter), given the counter before the
\* atomic increment.
GenerateUniqueId(c) == StdToString(c + 1)

\* Message::CreateResponse or Message::CreateStatus on thread t: the id is
\* drawn by one atomic increment of the counter.
CreateMessage(t) ==
    /\ creating[t].pc = "idle"
    /\ idCounter < MaxIds
    /\ idCounter' = idCounter + 1
    /\ issued' = Append(issued, GenerateUniqueId(idCounter))
    /\ \E type \in CreatedTypes :
        creating' = [creating EXCEPT ![t] =
                        [pc |-> "created", id |-> GenerateUniqueId(idCounter), type |-> type]]
    /\ UNCHANGED <<idRegistry, idHandlers, posted, registrations, earlierVars, tableVars, lifecycleVars, controlVars>>

\* g_ipcBroker->SendMessage with the message thread t created.
SendCreated(t) ==
    /\ creating[t].pc = "created"
    /\ posted' = IF SendAccepts(running, ServerName)
                 THEN Append(posted, [id |-> creating[t].id, type |-> creating[t].type])
                 ELSE posted
    /\ creating' = [creating EXCEPT ![t] = [pc |-> "idle", id |-> <<>>, type |-> "NONE"]]
    /\ UNCHANGED <<idCounter, idRegistry, idHandlers, issued, registrations, earlierVars,
                   tableVars, lifecycleVars, controlVars>>

\* The registration message: a default-constructed Message whose
\* sourceModule, targetModule, type and payload are then assigned.
RegistrationMessage == [id |-> <<>>, type |-> "REGISTER"]

\* RemoteDesktopServer::RegisterWithAgentCore with g_ipcBroker set:
\* RegisterModule, RegisterHandler, and SendMessage of the registration
\* message.
RegisterWithAgentCore ==
    /\ creating["main"].pc = "idle"
    /\ registrations < MaxRegistrations
    /\ registrations' = registrations + 1
    /\ idRegistry' = RegisterModuleResult(idRegistry, ServerName).modules
    /\ idHandlers' = idHandlers + 1
    /\ posted' = IF SendAccepts(running, ServerName)
                 THEN Append(posted, RegistrationMessage)
                 ELSE posted
    /\ UNCHANGED <<idCounter, creating, issued, earlierVars, tableVars, lifecycleVars, controlVars>>

IdentityNext ==
    \/ Start
    \/ StopBegin
    \/ \E t \in Makers : CreateMessage(t)
    \/ \E t \in Makers : SendCreated(t)
    \/ RegisterWithAgentCore

IdentitySpec == Init /\ [][IdentityNext]_vars

(***************************************************************************)
(* RemoteDesktopServer::_sessions: the accesses of HandleNewConnection,    *)
(* Stop, ProcessCommandFromAgentCore, SendStatusToAgentCore and            *)
(* ExecuteCommand, each on the thread that runs it.                        *)
(***************************************************************************)
\* The accesses each thread makes: HandleNewConnection on the accept thread;
\* ExecuteCommand("stop"), ("list_sessions") and ("status") on a request
\* thread; ProcessCommandFromAgentCore with shutdown, disconnect_all and
\* status on the broker worker.
TableOps(t) ==
    CASE t = "accept" -> {"insert"}
      [] t = "ctl" -> {"stop", "list_sessions", "count"}
      [] t = "worker" -> {"shutdown", "disconnect_all", "size"}

\* The accesses made under std::lock_guard<std::mutex> lock(_sessionsMutex):
\* the list_sessions branch of ExecuteCommand and GetSessionCount.
TakesLock(op) == op \in {"list_sessions", "count"}

\* The accesses that modify the map.
Writes(op) == op \in {"insert", "stop", "shutdown", "disconnect_all"}

\* RemoteDesktopServer::Stop up to the loop over _sessions.
StopsServer(op) == op \in {"stop", "shutdown"}

\* Thread t enters an access of _sessions.  Stop first clears _running and
\* has NetworkManager::Stop join the accept thread.
TableBegin(t, op, k) ==
    /\ ~tblCrashed /\ tpc[t] = NoAccess
    /\ op \in TableOps(t)
    /\ op = "insert" => tblRunning /\ sessionTable[k] = "absent"
    /\ StopsServer(op) => tblRunning /\ tpc["accept"] = NoAccess
    /\ tblRunning' = IF StopsServer(op) THEN FALSE ELSE tblRunning
    /\ IF TakesLock(op)
       THEN tableMutex = "free" /\ tableMutex' = t
       ELSE UNCHANGED tableMutex
    /\ tpc' = [tpc EXCEPT ![t] = [op |-> op, key |-> IF op = "insert" THEN k ELSE 0]]
    /\ UNCHANGED <<sessionTable, tblClosed, tblCrashed, earlierVars, identityVars, lifecycleVars, controlVars>>

\* for (auto& session : _sessions) session.second->Stop(); _sessions.clear():
\* Session::Stop, taken to return, closes the socket of a running Session;
\* on a Session whose inbound loop has cleared _running it returns at once,
\* and clear() then destroys that Session with its threads joinable.
StopAllDestroysJoinable == \E k \in Sockets : sessionTable[k] = "ended"
StopAllClosed == {k \in Sockets : sessionTable[k] = "running"}

\* Thread t completes its access.
TableEnd(t) ==
    /\ ~tblCrashed /\ tpc[t] # NoAccess
    /\ tpc' = [tpc EXCEPT ![t] = NoAccess]
    /\ tableMutex' = IF tableMutex = t THEN "free" ELSE tableMutex
    /\ CASE tpc[t].op = "insert" ->
                /\ sessionTable' = [sessionTable EXCEPT ![tpc[t].key] = "running"]
                /\ tblClosed' = tblClosed \ {tpc[t].key}
                /\ UNCHANGED tblCrashed
         [] tpc[t].op \in {"stop", "shutdown", "disconnect_all"} ->
                /\ sessionTable' = [k \in Sockets |-> "absent"]
                /\ tblClosed' = tblClosed \cup StopAllClosed
                /\ tblCrashed' = StopAllDestroysJoinable
         [] OTHER -> UNCHANGED <<sessionTable, tblClosed, tblCrashed>>
    /\ UNCHANGED <<tblRunning, earlierVars, identityVars, lifecycleVars, controlVars>>

\* RemoteDesktopServer::Start succeeding.
TableServerStart ==
    /\ ~tblCrashed /\ ~tblRunning
    /\ tblRunning' = TRUE
    /\ UNCHANGED <<sessionTable, tableMutex, tpc, tblClosed, tblCrashed, earlierVars,
                   identityVars, lifecycleVars, controlVars>>

\* The peer of the Session under key k disconnects: InputProcessingLoop
\* receives nothing, clears _running of the Session and returns.
SessionEnds(k) ==
    /\ ~tblCrashed /\ sessionTable[k] = "running"
    /\ sessionTable' = [sessionTable EXCEPT ![k] = "ended"]
    /\ UNCHANGED <<tableMutex, tpc, tblRunning, tblClosed, tblCrashed, earlierVars,
                   identityVars, lifecycleVars, controlVars>>

\* Two threads are inside the map at once and one of them modifies it.
Racing ==
    \E t1, t2 \in TableThreads :
        /\ t1 # t2 /\ tpc[t1] # NoAccess /\ tpc[t2] # NoAccess
        /\ Writes(tpc[t1].op)

\* A data race on the std::map has undefined behaviour: the accesses may go
\* on as if they had been made in turn, or the process ends.
TableRaceCrash ==
    /\ ~tblCrashed /\ Racing
    /\ tblCrashed' = TRUE
    /\ UNCHANGED <<sessionTable, tableMutex, tpc, tblRunning, tblClosed, earlierVars,
                   identityVars, lifecycleVars, controlVars>>

TableNext ==
    \/ \E t \in TableThreads, k \in Sockets : \E op \in TableOps(t) : TableBegin(t, op, k)
    \/ \E t \in TableThreads : TableEnd(t)
    \/ TableServerStart
    \/ \E k \in Sockets : SessionEnds(k)
    \/ TableRaceCrash

TableSpec == Init /\ [][TableNext]_vars

\* A thread that is inside an access is scheduled and completes it; nothing
\* makes a command, a connection or a disconnect arrive.
TableFairness == \A t \in TableThreads : WF_vars(TableEnd(t))

TableFairSpec == TableSpec /\ TableFairness

(***************************************************************************)
(* IPCBroker::Start and IPCBroker::Stop, statement by statement, called by *)
(* two threads, and the threads that run ProcessMessages.                  *)
(***************************************************************************)
\* A call begins while the other thread is inside a call.
Overlaps(t) == \E u \in Callers \ {t} : lcpc[u] # "idle"

\* Start: if (_running) return true;
LcStartCheck(t) ==
    /\ ~lcTerminated /\ lcpc[t] = "idle"
    /\ lcSpawns + Cardinality({u \in Callers : lcpc[u] \in {"start_set", "start_spawn"}}) < MaxSpawns
    /\ lcpc' = [lcpc EXCEPT ![t] = IF lcRunning THEN "idle" ELSE "start_set"]
    /\ lcOverlapped' = (lcOverlapped \/ Overlaps(t))
    /\ UNCHANGED <<lcRunning, lcThread, lcWorkers, lcTerminated, lcSpawns, earlierVars,
                   identityVars, tableVars, controlVars>>

\* Start: _running = true;
LcStartSet(t) ==
    /\ ~lcTerminated /\ lcpc[t] = "start_set"
    /\ lcRunning' = TRUE
    /\ lcpc' = [lcpc EXCEPT ![t] = "start_spawn"]
    /\ UNCHANGED <<lcThread, lcWorkers, lcTerminated, lcSpawns, lcOverlapped, earlierVars,
                   identityVars, tableVars, controlVars>>

\* Start: _processingThread = std::thread(&IPCBroker::ProcessMessages, this).
\* The new thread is created first; the move assignment to a member that is
\* still joinable calls std::terminate.
LcStartSpawn(t) ==
    /\ ~lcTerminated /\ lcpc[t] = "start_spawn"
    /\ lcSpawns' = lcSpawns + 1
    /\ lcWorkers' = [lcWorkers EXCEPT ![lcSpawns + 1] = "running"]
    /\ IF lcThread # 0
       THEN lcTerminated' = TRUE /\ UNCHANGED lcThread
       ELSE lcThread' = lcSpawns + 1 /\ UNCHANGED lcTerminated
    /\ lcpc' = [lcpc EXCEPT ![t] = "idle"]
    /\ UNCHANGED <<lcRunning, lcOverlapped, earlierVars, identityVars, tableVars,
                   controlVars>>

\* Stop: if (!_running) return;
LcStopCheck(t) ==
    /\ ~lcTerminated /\ lcpc[t] = "idle"
    /\ lcpc' = [lcpc EXCEPT ![t] = IF lcRunning THEN "stop_set" ELSE "idle"]
    /\ lcOverlapped' = (lcOverlapped \/ Overlaps(t))
    /\ UNCHANGED <<lcRunning, lcThread, lcWorkers, lcTerminated, lcSpawns, earlierVars,
                   identityVars, tableVars, controlVars>>

\* Stop: _running = false; notify_all()
LcStopSet(t) ==
    /\ ~lcTerminated /\ lcpc[t] = "stop_set"
    /\ lcRunning' = FALSE
    /\ lcpc' = [lcpc EXCEPT ![t] = "stop_join"]
    /\ UNCHANGED <<lcThread, lcWorkers, lcTerminated, lcSpawns, lcOverlapped, earlierVars,
                   identityVars, tableVars, controlVars>>

\* Stop: if (_processingThread.joinable()) _processingThread.join(); the
\* clearing of the containers follows and Stop returns.
LcStopJoin(t) ==
    /\ ~lcTerminated /\ lcpc[t] = "stop_join"
    /\ IF lcThread = 0
       THEN UNCHANGED <<lcThread, lcWorkers>>
       ELSE /\ lcWorkers[lcThread] = "exited"
            /\ lcWorkers' = [lcWorkers EXCEPT ![lcThread] = "joined"]
            /\ lcThread' = 0
    /\ lcpc' = [lcpc EXCEPT ![t] = "idle"]
    /\ UNCHANGED <<lcRunning, lcTerminated, lcSpawns, lcOverlapped, earlierVars,
                   identityVars, tableVars, controlVars>>

\* ProcessMessages on thread i finds _running false and returns.
LcWorkerExit(i) ==
    /\ ~lcTerminated /\ lcWorkers[i] = "running"
    /\ ~lcRunning
    /\ lcWorkers' = [lcWorkers EXCEPT ![i] = "exited"]
    /\ UNCHANGED <<lcRunning, lcThread, lcpc, lcTerminated, lcSpawns, lcOverlapped,
                   earlierVars, identityVars, tableVars,
                   controlVars>>

LifecycleNext ==
    \/ \E t \in Callers : LcStartCheck(t)
    \/ \E t \in Callers : LcStartSet(t)
    \/ \E t \in Callers : LcStartSpawn(t)
    \/ \E t \in Callers : LcStopCheck(t)
    \/ \E t \in Callers : LcStopSet(t)
    \/ \E t \in Callers : LcStopJoin(t)
    \/ \E i \in 1..MaxSpawns : LcWorkerExit(i)

LifecycleSpec == Init /\ [][LifecycleNext]_vars

(***************************************************************************)
(* ExecuteCommand("start") and ExecuteCommand("stop") executed by request  *)
(* threads, with RemoteDesktopServer::Start and Stop and the               *)
(* NetworkManager calls they make, statement by statement.                 *)
(***************************************************************************)
othersThanControl == <<earlierVars, identityVars, tableVars, lifecycleVars>>

\* Thread t is at position p of command c.
At(t, c, p) == ccpc[t] = [cmd |-> c, at |-> p]

\* Thread t moves to position p; position "idle" ends the command with the
\* response r.
Goes(t, p, r) ==
    /\ ccpc' = [ccpc EXCEPT ![t] = IF p = "idle" THEN NoCommand ELSE [@ EXCEPT !.at = p]]
    /\ ccResp' = [ccResp EXCEPT ![t] = r]

\* A request thread has received a command and calls ExecuteCommand.
ControlBegin(t, c) ==
    /\ ~ccTerminated /\ ccpc[t] = NoCommand
    /\ ccpc' = [ccpc EXCEPT ![t] = [cmd |-> c, at |-> "exec"]]
    /\ ccResp' = [ccResp EXCEPT ![t] = "none"]
    /\ ccOverlapped' = (ccOverlapped \/ \E u \in Requesters \ {t} : ccpc[u] # NoCommand)
    /\ UNCHANGED <<controlState, othersThanControl>>

\* ExecuteCommand, cmd == "start": if (_running) the response is
\* "Server already running", else Start(_port) is called.
ExecStart(t) ==
    /\ ~ccTerminated /\ At(t, "start", "exec")
    /\ IF ccRunning
       THEN Goes(t, "idle", "Server already running")
       ELSE Goes(t, "start_check", "none")
    /\ UNCHANGED <<controlState, ccOverlapped, othersThanControl>>

\* RemoteDesktopServer::Start: if (_running) return false;
StartCheck(t) ==
    /\ ~ccTerminated /\ At(t, "start", "start_check")
    /\ IF ccRunning
       THEN Goes(t, "idle", "Failed to start server")
       ELSE Goes(t, "net_start", "none")
    /\ UNCHANGED <<controlState, ccOverlapped, othersThanControl>>

\* NetworkManager::Start: _running = true; a new socket is stored in
\* _serverSocket; bind fails while another socket listens on the port, and
\* the new socket is closed; else listen, and the accept thread is created
\* and assigned to _acceptThread (std::terminate if that is joinable).
ControlNetStart(t) ==
    /\ ~ccTerminated /\ At(t, "start", "net_start")
    /\ ccNmRunning' = TRUE
    /\ IF ccBound
       THEN /\ ccSocket' = "closed"
            /\ Goes(t, "idle", "Failed to start server")
            /\ UNCHANGED <<ccBound, ccAccept, ccTerminated>>
       ELSE /\ ccSocket' = "listening"
            /\ ccBound' = TRUE
            /\ IF ccAccept # "none"
               THEN ccTerminated' = TRUE /\ UNCHANGED ccAccept
               ELSE ccAccept' = "running" /\ UNCHANGED ccTerminated
            /\ Goes(t, "start_set", "none")
    /\ UNCHANGED <<ccRunning, ccOverlapped, othersThanControl>>

\* RemoteDesktopServer::Start: _running = true; return true;
StartSet(t) ==
    /\ ~ccTerminated /\ At(t, "start", "start_set")
    /\ ccRunning' = TRUE
    /\ Goes(t, "idle", "Server started")
    /\ UNCHANGED <<ccNmRunning, ccSocket, ccBound, ccAccept, ccTerminated, ccOverlapped,
                   othersThanControl>>

\* ExecuteCommand, cmd == "stop": if (!_running) the response is
\* "Server not running", else Stop() is called.
ExecStop(t) ==
    /\ ~ccTerminated /\ At(t, "stop", "exec")
    /\ IF ~ccRunning
       THEN Goes(t, "idle", "Server not running")
       ELSE Goes(t, "stop_check", "none")
    /\ UNCHANGED <<controlState, ccOverlapped, othersThanControl>>

\* RemoteDesktopServer::Stop: if (!_running) return; _running = false; the
\* response of ExecuteCommand after Stop() is "Server stopped" either way.
StopCheck(t) ==
    /\ ~ccTerminated /\ At(t, "stop", "stop_check")
    /\ IF ~ccRunning
       THEN Goes(t, "idle", "Server stopped") /\ UNCHANGED ccRunning
       ELSE Goes(t, "net_stop", "none") /\ ccRunning' = FALSE
    /\ UNCHANGED <<ccNmRunning, ccSocket, ccBound, ccAccept, ccTerminated, ccOverlapped,
                   othersThanControl>>

\* NetworkManager::Stop: _running = false;
ControlNetStop(t) ==
    /\ ~ccTerminated /\ At(t, "stop", "net_stop")
    /\ ccNmRunning' = FALSE
    /\ Goes(t, "net_join", "none")
    /\ UNCHANGED <<ccRunning, ccSocket, ccBound, ccAccept, ccTerminated, ccOverlapped,
                   othersThanControl>>

\* NetworkManager::Stop: if (_acceptThread.joinable()) _acceptThread.join();
ControlNetJoin(t) ==
    /\ ~ccTerminated /\ At(t, "stop", "net_join")
    /\ ccAccept \in {"none", "exited"}
    /\ ccAccept' = "none"
    /\ Goes(t, "net_close", "none")
    /\ UNCHANGED <<ccRunning, ccNmRunning, ccSocket, ccBound, ccTerminated, ccOverlapped,
                   othersThanControl>>

\* NetworkManager::Stop: close(_serverSocket); Stop() and ExecuteCommand
\* return.
ControlNetClose(t) ==
    /\ ~ccTerminated /\ At(t, "stop", "net_close")
    /\ ccBound' = IF ccSocket = "listening" THEN FALSE ELSE ccBound
    /\ ccSocket' = "closed"
    /\ Goes(t, "idle", "Server stopped")
    /\ UNCHANGED <<ccRunning, ccNmRunning, ccAccept, ccTerminated, ccOverlapped,
                   othersThanControl>>

\* AcceptConnections, its accept having returned, finds _running false and
\* returns.
ControlAcceptExit ==
    /\ ~ccTerminated /\ ccAccept = "running"
    /\ ~ccNmRunning
    /\ ccAccept' = "exited"
    /\ UNCHANGED <<ccRunning, ccNmRunning, ccSocket, ccBound, ccTerminated, ccpc, ccResp,
                   ccOverlapped, othersThanControl>>

ControlNext ==
    \/ \E t \in Requesters, c \in {"start", "stop"} : ControlBegin(t, c)
    \/ \E t \in Requesters : ExecStart(t)
    \/ \E t \in Requesters : StartCheck(t)
    \/ \E t \in Requesters : ControlNetStart(t)
    \/ \E t \in Requesters : StartSet(t)
    \/ \E t \in Requesters : ExecStop(t)
    \/ \E t \in Requesters : StopCheck(t)
    \/ \E t \in Requesters : ControlNetStop(t)
    \/ \E t \in Requesters : ControlNetJoin(t)
    \/ \E t \in Requesters : ControlNetClose(t)
    \/ ControlAcceptExit

ControlSpec == Init /\ [][ControlNext]_vars

(***************************************************************************)
(* The helpers of a Session that send to the peer: the screen loop,        *)
(* RemoteClipboard, ChatManager and FileTransfer, each ending in            *)
(* NetworkManager::SendData.                                               *)
(***************************************************************************)
FileBufferSize == 8192
Bar == 124
Zero == 48

\* The bytes of std::to_string(n), n >= 0
RECURSIVE ToStringBytes(_)
ToStringBytes(n) ==
    IF n < 10 THEN <<Zero + n>> ELSE ToStringBytes(n \div 10) \o <<Zero + (n % 10)>>

Texts == StringsUpTo(MaxContentLen)
Files == UNION {PatternBytes(n) : n \in {0, 1, FileBufferSize + 1}}

\* NetworkManager::SendData(clientSocket, data): send(clientSocket,
\* data.data(), data.size(), 0); kind and payload are recorded with it.
SendData(kind, payload, data) ==
    /\ sendKind' = kind
    /\ sendPayload' = payload
    /\ sendBytes' = data
    /\ UNCHANGED <<beforeFinal, otherThanOutbound>>

\* The body of ScreenCaptureLoop: capture, encrypt, SendData.
SendScreen ==
    \E k \in SessionKeys, screenData \in Buffers :
        LET encryptedData == Encrypt(k, screenData)
        IN  SendData("screen", encryptedData, encryptedData) /\ UNCHANGED <<fileRest, inFile>>

\* RemoteClipboard::SendClipboardData
SendClipboardData ==
    \E text \in Texts :
        SendData("clipboard", text, text) /\ UNCHANGED <<fileRest, inFile>>

\* ChatManager::SendMessage: sender + "|" + std::to_string(timestamp) + "|" +
\* message
ChatSendMessage ==
    \E sender \in StringsUpTo(MaxNameLen), t \in Timestamps, text \in Texts :
        LET formattedMessage == sender \o <<Bar>> \o ToStringBytes(t) \o <<Bar>> \o text
        IN  SendData("chat", formattedMessage, formattedMessage)
                /\ UNCHANGED <<fileRest, inFile>>

\* FileTransfer::SendFile up to its loop: the file size, a long, is copied
\* into 8 bytes and sent.
SendFileSize ==
    /\ ~inFile
    /\ \E file \in Files :
        LET sizeData == LittleEndianBytes(Len(file), 8)
        IN  /\ SendData("file_size", sizeData, sizeData)
            /\ fileRest' = file
            /\ inFile' = TRUE

\* One pass of the loop of SendFile: up to 8192 bytes are read and sent; the
\* loop ends when fread returns 0.
SendFileChunk ==
    /\ inFile
    /\ LET bytesRead == IF Len(fileRest) < FileBufferSize THEN Len(fileRest)
                        ELSE FileBufferSize
           buffer == SubSeq(fileRest, 1, bytesRead)
       IN  IF bytesRead > 0
           THEN /\ SendData("file_chunk", buffer, buffer)
                /\ fileRest' = SubSeq(fileRest, bytesRead + 1, Len(fileRest))
                /\ UNCHANGED inFile
           ELSE /\ inFile' = FALSE
                /\ UNCHANGED <<sendKind, sendPayload, sendBytes, fileRest, beforeFinal,
                             otherThanOutbound>>

OutboundNext ==
    SendScreen \/ SendClipboardData \/ ChatSendMessage \/ SendFileSize \/ SendFileChunk

OutboundSpec == Init /\ [][OutboundNext]_vars

(***************************************************************************)
(* The handler of the server with what ProcessCommandFromAgentCore does to *)
(* the server: the lambda of RegisterWithAgentCore called with a message   *)
(* of any type.                                                            *)
(***************************************************************************)
MaxDelivered == 2

MessageType == {"REGISTER", "UNREGISTER", "COMMAND", "RESPONSE", "STATUS", "ALERT", "DATA"}

Text_shutdown == <<"s", "h", "u", "t", "d", "o", "w", "n">>
Text_disconnect_all == <<"d", "i", "s", "c", "o", "n", "n", "e", "c", "t", "_", "a", "l", "l">>

\* The payloads of the messages delivered to the server.
DeliveredPayloads ==
    {Text_status, Text_start, Text_stop, Text_list_sessions, Text_shutdown,
     Text_disconnect_all, Text_setport \o <<"9", "0", "0", "0">>,
     Text_disconnect_session \o <<"7">>, <<"b", "o", "g", "u", "s">>}

\* The payload of the RESPONSE, "Command processed", and of the STATUS
\* message: texts that are not results of ExecuteCommand.
CommandProcessed == [kind |-> "text", message |-> "Command processed"]
StatusOnline == [kind |-> "text", message |-> "online"]

\* str.find(lit) != std::string::npos
Find(str, lit) ==
    \E i \in 1..(Len(str) - Len(lit) + 1) : SubSeq(str, i, i + Len(lit) - 1) = lit

\* The handler calls ProcessCommandFromAgentCore for this type of message.
ReactsToAll(type) == TRUE
ReactsTo(type) == type = "COMMAND"

\* ProcessCommandFromAgentCore(command) on a server in state st: the state
\* after it and the messages published.  "shutdown" calls Stop(), "status"
\* SendStatusToAgentCore(), "disconnect_all" stops and clears the sessions.
ProcessCommand(command, st) ==
    IF Find(command, Text_shutdown)
    THEN [state |-> IF st.running THEN [st EXCEPT !.running = FALSE, !.sessions = {}] ELSE st,
          published |-> <<>>]
    ELSE IF Find(command, Text_status)
    THEN [state |-> st, published |-> <<[type |-> "STATUS", payload |-> StatusOnline]>>]
    ELSE IF Find(command, Text_disconnect_all)
    THEN [state |-> [st EXCEPT !.sessions = {}], published |-> <<>>]
    ELSE [state |-> st, published |-> <<>>]

\* The lambda registered by RegisterWithAgentCore, called by the worker of
\* the broker with a message.
HandleMessage ==
    /\ delivered < MaxDelivered
    /\ \E type \in MessageType, payload \in DeliveredPayloads :
        LET st == ServerState(srvRunning, port, sessions)
            r == ProcessCommand(payload, st)
        IN  /\ dlvRequest' = [type |-> type, payload |-> payload]
            /\ dlvBefore' = st
            /\ IF ReactsTo(type)
               THEN /\ srvRunning' = r.state.running
                    /\ sessions' = r.state.sessions
                    /\ dlvPublished' = r.published \o
                            <<[type |-> "RESPONSE", payload |-> CommandProcessed]>>
               ELSE /\ dlvPublished' = <<>>
                    /\ UNCHANGED <<srvRunning, sessions>>
    /\ delivered' = delivered + 1
    /\ UNCHANGED <<port, lastCommand, lastResponse, before, executed>>
    /\ UNCHANGED <<brokerVars, sessionVars, codecVars, cipherVars, handlerVars, acceptorVars,
                   identityVars, tableVars, lifecycleVars, controlVars, otherThanDelivered>>

\* Commands of the control plane and new connections bring the server to a
\* state; then the broker delivers messages to the handler.
DeliveredNext ==
    \/ delivered = 0 /\ Execute
    \/ delivered = 0 /\ HandleNewConnection
    \/ HandleMessage

DeliveredSpec == Init /\ [][DeliveredNext]_vars

(***************************************************************************)
(* SerializableMessage::Serialize on messages whose strings are too long   *)
(* to enumerate: a message is given by the sizes of source, target and     *)
(* content.  A size_t is the sequence of its 16-bit digits, least          *)
(* significant first.                                                      *)
(***************************************************************************)
Digit == 65536

\* The size_t of a number below 2^16.
Small(n) == <<n, 0, 0>>

\* a + b on size_t values below 2^47
SizeAdd(a, b) ==
    LET d1 == a[1] + b[1]
        d2 == a[2] + b[2] + (d1 \div Digit)
        d3 == a[3] + b[3] + (d2 \div Digit)
    IN  <<d1 % Digit, d2 % Digit, d3 % Digit>>

\* The sizes of the strings: 0, 1, around 2^16, around 2^32.
StringSizes ==
    {Small(0), Small(1), Small(Digit - 1), <<0, 1, 0>>, <<1, 1, 0>>,
     <<Digit - 1, Digit - 1, 0>>, <<0, 0, 1>>, <<1, 0, 1>>}

\* static_cast<uint16_t>(size) and static_cast<uint32_t>(size)
Uint16(size) == <<size[1], 0, 0>>
Uint32(size) == <<size[1], size[2], 0>>

\* The length fields Serialize writes for strings of these sizes: sourceLen
\* and targetLen in 2 bytes, contentLen in 4.
LengthFields(src, tgt, cnt) ==
    LittleEndianBytes(Uint16(src)[1], 2) \o LittleEndianBytes(Uint16(tgt)[1], 2)
        \o LittleEndianBytes(Uint32(cnt)[1], 2) \o LittleEndianBytes(Uint32(cnt)[2], 2)

\* result.size() after Serialize: the 17 bytes pushed, then source, target
\* and content inserted whole.
SerializedSize(src, tgt, cnt) ==
    SizeAdd(SizeAdd(SizeAdd(Small(HeaderSize), src), tgt), cnt)

\* Serialize is called on a message with strings of some sizes.
SerializeSized ==
    /\ \E src \in StringSizes, tgt \in StringSizes, cnt \in StringSizes :
        /\ sizes' = [source |-> src, target |-> tgt, content |-> cnt]
        /\ lengthBytes' = LengthFields(src, tgt, cnt)
        /\ resultSize' = SerializedSize(src, tgt, cnt)
    /\ UNCHANGED <<beforeFinal, otherThanSized>>

SizedNext == SerializeSized

SizedSpec == Init /\ [][SizedNext]_vars

(***************************************************************************)
(* SessionRecorder.  The outbound loop of the Session calls RecordFrame,   *)
(* the inbound loop RecordEvent, and StartRecording and StopRecording come *)
(* from the thread that holds the Session.  The class has no mutex: each   *)
(* _recordFile.write is a step of its own.  The file is the sequence of    *)
(* the fields written, each with the number of its record.                 *)
(***************************************************************************)
MaxRecords == 2
MaxRecordings == 2

\* The fields of a frame record and of an event record, in the order of the
\* writes.
FrameFields == <<"timestamp", "size", "data">>
EventFields == <<"timestamp", "type", "x", "y", "data">>
FieldsOf(t) == IF t = "screen" THEN FrameFields ELSE EventFields

\* Two writes on the one ofstream that no lock orders are a data race: the
\* field arrives whole, or what arrives in its place is not the field.
RacingOutcomes == {"written", "torn"}

\* StartRecording: nothing when recording; else the file is opened, which
\* empties it, and _recording is set.
StartRecording ==
    /\ recStarts < MaxRecordings
    /\ recStarts' = recStarts + 1
    /\ IF recording
         THEN UNCHANGED <<recording, recordOpen, recordFile>>
         ELSE /\ recordOpen' = TRUE
              /\ recordFile' = <<>>
              /\ recording' = TRUE
    /\ UNCHANGED <<recPc, recNext>>
    /\ UNCHANGED <<beforeFinal, otherThanRecorder>>

\* StopRecording: nothing when not recording; else the file is closed and
\* _recording cleared.
StopRecording ==
    /\ recStarts > 0
    /\ IF recording
         THEN /\ recordOpen' = FALSE
              /\ recording' = FALSE
         ELSE UNCHANGED <<recording, recordOpen>>
    /\ UNCHANGED <<recordFile, recPc, recNext, recStarts>>
    /\ UNCHANGED <<beforeFinal, otherThanRecorder>>

\* RecordFrame or RecordEvent passes `if (!_recording || !_recordFile)
\* return;` and has its fields to write.
RecordBegin(t) ==
    /\ recPc[t] = NoRecord
    /\ recNext <= MaxRecords
    /\ recording /\ recordOpen
    /\ recPc' = [recPc EXCEPT ![t] = [id |-> recNext, rest |-> FieldsOf(t)]]
    /\ recNext' = recNext + 1
    /\ UNCHANGED <<recording, recordOpen, recordFile, recStarts>>
    /\ UNCHANGED <<beforeFinal, otherThanRecorder>>

\* One _recordFile.write.  On a closed stream it writes nothing.  While the
\* other thread is inside its record too, the two writes race.
RecordWrite(t) ==
    /\ recPc[t] # NoRecord
    /\ LET field == [rec |-> recPc[t].id, by |-> t, name |-> Head(recPc[t].rest),
                     torn |-> FALSE]
           racing == \E u \in RecorderThreads \ {t} : recPc[u] # NoRecord
       IN  \E outcome \in (IF racing THEN RacingOutcomes ELSE {"written"}) :
              recordFile' =
                  IF ~recordOpen THEN recordFile
                  ELSE IF outcome = "torn"
                         THEN Append(recordFile, [field EXCEPT !.torn = TRUE])
                         ELSE Append(recordFile, field)
    /\ recPc' = [recPc EXCEPT ![t] =
                    IF Len(recPc[t].rest) = 1 THEN NoRecord
                    ELSE [recPc[t] EXCEPT !.rest = Tail(@)]]
    /\ UNCHANGED <<recording, recordOpen, recNext, recStarts>>
    /\ UNCHANGED <<beforeFinal, otherThanRecorder>>

RecorderNext ==
    \/ StartRecording
    \/ StopRecording
    \/ \E t \in RecorderThreads : RecordBegin(t)
    \/ \E t \in RecorderThreads : RecordWrite(t)

RecorderSpec == Init /\ [][RecorderNext]_vars


(***************************************************************************)
(* Properties of the broker.                                               *)
(***************************************************************************)
IsPrefix(s, t) == Len(s) <= Len(t) /\ SubSeq(t, 1, Len(s)) = s
IsSuffix(s, t) == Len(s) <= Len(t) /\ SubSeq(t, Len(t) - Len(s) + 1, Len(t)) = s
NoDuplicates(s) == \A i, j \in 1..Len(s) : i # j => s[i] # s[j]
Position(s, x) == CHOOSE i \in 1..Len(s) : s[i] = x
QueueIds == [i \in 1..Len(messageQueue) |-> messageQueue[i].id]

\* The invocations a complete dispatch to `targets` makes, in order: every
\* handler of every target once.
RECURSIVE AllHandlersOf(_, _)
AllHandlersOf(targets, h) ==
    IF targets = <<>> THEN <<>>
    ELSE [i \in 1..h[Head(targets)] |-> <<Head(targets), i>>]
         \o AllHandlersOf(Tail(targets), h)

\* The worker holds a message it took from the queue and has determined its targets.
Dispatching == message.id # 0 /\ wpc \in {"lock_handlers", "dispatch", "terminated"}
\* The worker will make no further invocation for the message it holds.
DispatchOver == \/ wpc = "dispatch" /\ ti > Len(targetModules)
                \/ wpc = "terminated"
Unicast == Dispatching /\ message.targetModule # Empty
Broadcast == Dispatching /\ message.targetModule = Empty

\* C1: a unicast message to a module T that is registered when the message is
\* dispatched is delivered to the handlers subscribed under T and to no other
\* handler: at any time the invocations made for it are the first handlers of T,
\* in order, and once the worker is done with the message they are all handlers
\* of T, each once.
C1_UnicastDelivery ==
    (Unicast /\ Contains(snapshot, message.targetModule)) =>
        /\ IsPrefix(calls, AllHandlersOf(<<message.targetModule>>, handlers))
        /\ DispatchOver => calls = AllHandlersOf(<<message.targetModule>>, handlers)

\* The routing part of C1 alone: what holds when the dispatch loop of a unicast
\* message runs to its end.
UnicastRouting ==
    (Unicast /\ wpc = "dispatch") =>
        /\ IsPrefix(calls, AllHandlersOf(<<message.targetModule>>, handlers))
        /\ ti > Len(targetModules) => calls = AllHandlersOf(<<message.targetModule>>, handlers)

\* C2: a broadcast message is delivered to the handlers of every registered
\* module but the source, never to a handler of the source, and the number of
\* modules it goes to is the number of registered modules minus one (0 when
\* there is none to subtract from).
C2_BroadcastDelivery ==
    Broadcast =>
        /\ targetModules = Remove(snapshot, message.sourceModule)
        /\ \A i \in 1..Len(calls) : calls[i][1] # message.sourceModule
        /\ Len(targetModules) = (IF Len(snapshot) > 0 THEN Len(snapshot) - 1 ELSE 0)
        /\ IsPrefix(calls, AllHandlersOf(targetModules, handlers))
        /\ DispatchOver => calls = AllHandlersOf(targetModules, handlers)

\* The routing part of C2 alone: the targets of a broadcast are the registered
\* modules but the source (one fewer than the registered modules only when the
\* source is registered), and a dispatch loop that runs to its end calls every
\* handler of every target once.
BroadcastRouting ==
    (Broadcast /\ wpc = "dispatch") =>
        /\ targetModules = Remove(snapshot, message.sourceModule)
        /\ Len(targetModules) = Len(snapshot)
                - (IF Contains(snapshot, message.sourceModule) THEN 1 ELSE 0)
        /\ IsPrefix(calls, AllHandlersOf(targetModules, handlers))
        /\ ti > Len(targetModules) => calls = AllHandlersOf(targetModules, handlers)

\* C3: when a handler has thrown during the dispatch of a message, the worker
\* thread still runs, and once it is done with the message every handler of
\* every target module has been invoked.
C3_HandlerIsolation ==
    (Dispatching /\ threw) =>
        /\ wpc # "terminated"
        /\ DispatchOver => calls = AllHandlersOf(targetModules, handlers)

\* The part of C3 the catch clause provides: a handler that throws a
\* std::exception stops neither the dispatch nor the worker.
StdExceptionIsolated ==
    (Dispatching /\ threw /\ wpc = "dispatch") =>
        /\ IsPrefix(calls, AllHandlersOf(targetModules, handlers))
        /\ ti > Len(targetModules) => calls = AllHandlersOf(targetModules, handlers)

\* A RegisterModule or UnregisterModule call of client c returns in this step.
RegistryCallReturns(c, op) ==
    /\ pc[c] # "return" /\ pc'[c] = "return"
    /\ arg'[c].op = op

\* C4: the registry never holds a name twice; RegisterModule(n) returns false
\* and leaves the registry as it is when n is registered, and returns true and
\* adds n when it is not (so also right after an UnregisterModule(n) that
\* returned true, which leaves n unregistered); UnregisterModule(n) returns
\* false when n is not registered; a name enters the registry only by a
\* RegisterModule call that returns true.
C4_ModuleRegistry ==
    /\ [](NoDuplicates(registeredModules))
    /\ [][\A c \in Clients :
            /\ RegistryCallReturns(c, "RegisterModule") =>
                /\ arg'[c].ret = ~Contains(registeredModules, arg'[c].name)
                /\ Contains(registeredModules', arg'[c].name)
                /\ ~arg'[c].ret => registeredModules' = registeredModules
            /\ RegistryCallReturns(c, "UnregisterModule") =>
                /\ arg'[c].ret = arg'[c].was
                /\ ~arg'[c].ret => /\ ~Contains(registeredModules, arg'[c].name)
                                   /\ registeredModules' = registeredModules
                /\ ~Contains(registeredModules', arg'[c].name)]_vars
    /\ [][\A n \in Names :
            (~Contains(registeredModules, n) /\ Contains(registeredModules', n)) =>
                \E c \in Clients : /\ RegistryCallReturns(c, "RegisterModule")
                                   /\ arg'[c].name = n /\ arg'[c].ret]_vars
    /\ [][\A c \in Clients :
            (pc[c] = "idle" /\ pc'[c] = "erase_handlers") =>
                /\ Contains(registeredModules, arg'[c].name)
                /\ ~Contains(registeredModules', arg'[c].name)]_vars

\* A second RegisterModule of a registered name has returned false, and an
\* UnregisterModule has returned true.
C4_Witness ==
    \E c \in Clients :
        /\ pc[c] = "return" /\ arg[c].op = "RegisterModule" /\ ~arg[c].ret
        /\ Len(registeredModules) = 2

\* C5: SendMessage returns false exactly when the broker was not running or
\* the source is empty; a refused message is never queued, dequeued or handed
\* to a handler; an accepted one is appended at the tail of the queue, so that
\* the queue is always the last messages pushed, in the order of the pushes.
C5_SendMessage ==
    /\ \A id \in 1..Len(sent) :
        /\ (sent[id].ret = "false") = (~sent[id].run \/ sent[id].sourceModule = Empty)
        /\ sent[id].ret = "false" =>
            /\ id \notin Range(enqueued) /\ id \notin Range(QueueIds)
            /\ id \notin Range(dispatched) /\ id \notin invoked
            /\ message.id # id
        /\ sent[id].ret = "true" => id \in Range(enqueued)
        /\ sent[id].ret = "pending" =>
            \E c \in Clients : pc[c] = "push" /\ arg[c].msg.id = id
    /\ IsSuffix(QueueIds, enqueued)

\* One message was refused because the broker was stopped, one because its
\* source is empty... and an accepted one is queued behind another.
C5_Witness ==
    /\ Len(sent) = 2
    /\ sent[1].ret = "false" /\ ~sent[1].run /\ sent[1].sourceModule # Empty
    /\ sent[2].ret = "true" /\ messageQueue # <<>>

\* C6: messages are dequeued in the order they were pushed, none twice and
\* none overtaking one pushed before it (a message pushed earlier has been
\* dequeued earlier or removed by Stop), and handlers are invoked only for
\* the message dequeued last.
C6_FifoDispatch ==
    /\ NoDuplicates(dispatched)
    /\ \A i \in 1..Len(dispatched) : dispatched[i] \in Range(enqueued)
    /\ \A i, j \in 1..Len(dispatched) :
        i < j => Position(enqueued, dispatched[i]) < Position(enqueued, dispatched[j])
    /\ \A j \in 1..Len(dispatched) : \A k \in 1..Len(enqueued) :
        k < Position(enqueued, dispatched[j]) =>
            \/ enqueued[k] \in discarded
            \/ \E i \in 1..(j - 1) : dispatched[i] = enqueued[k]
    /\ message.id # 0 => message.id = dispatched[Len(dispatched)]
    /\ calls # <<>> => message.id # 0
    /\ invoked \subseteq Range(dispatched)

\* Two producers raced: the message created second was pushed and dispatched
\* first, and handlers ran for both.
C6_Witness ==
    /\ dispatched = <<2, 1>>
    /\ invoked = {1, 2}

\* C7: a unicast message whose target is not registered when it is dispatched
\* is dropped: no handler is invoked for it.
C7_UnregisteredDropped ==
    (Unicast /\ ~Contains(snapshot, message.targetModule)
             /\ ~Contains(registeredModules, message.targetModule)) =>
        calls = <<>>

\* C8: when Stop() returns the worker is joined and the queue, the handlers
\* and the registry are empty; while the broker is stopped no worker exists
\* and, Stop() having cleared the queue, no message is queued; a message
\* Stop() removed is never dispatched.
C8_Shutdown ==
    /\ [](~running /\ cpc \in {"clear_handlers", "clear_modules", "idle"} =>
            wpc = "none" /\ messageQueue = <<>>)
    /\ [](discarded \cap Range(dispatched) = {})
    /\ [][(cpc = "clear_modules" /\ cpc' = "idle") =>
            /\ wpc' = "none"
            /\ messageQueue' = <<>>
            /\ \A n \in Names : handlers'[n] = 0
            /\ registeredModules' = <<>>]_vars

\* C28: provided every handler invocation returns, Stop() on a running
\* broker eventually returns, whatever the queue holds and whether or not the
\* notification reached the worker, because the wait of the worker on the
\* queue is bounded.
C28_StopTerminates == (cpc = "join") ~> (cpc = "idle" \/ ~Alive)

\* Stop() has got past the join although messages were still queued and the
\* worker had dispatched one.
C28_Witness ==
    /\ cpc = "clear_queue" /\ wpc = "none"
    /\ messageQueue # <<>> /\ dispatched # <<>>

(***************************************************************************)
(* Properties of the Session.                                              *)
(***************************************************************************)
\* C9: Stop() on a Session that was never started changes nothing; the first
\* Start() returns true and spawns one loop thread of each kind; a second
\* Start() with no Stop() in between returns false; there is never more than
\* one loop thread of each kind.
C9_SessionLifecycle ==
    /\ (starts = 0 /\ spc = "return") =>
        /\ screenThread = "none" /\ inputThread = "none"
        /\ clientSocket = "open" /\ closes = 0
    /\ starts = 1 => lastStart = "true"
    /\ sinceStop >= 2 => lastStart = "false"
    /\ screenLoops <= 1 /\ inputLoops <= 1
    /\ terminated # "Start"

\* C10: when Stop() returns on a Session that was started, both loop threads
\* are joined and the socket is closed; the socket is never closed while a
\* loop thread is not joined; the destructor then ends without std::terminate.
C10_SessionStop ==
    /\ (starts > 0 /\ spc = "return") =>
        /\ screenThread = "none" /\ inputThread = "none"
        /\ screenLoops = 0 /\ inputLoops = 0
        /\ clientSocket = "closed"
    /\ ~closedEarly
    /\ terminated # "~Session"

\* The inbound loop is in ReceiveData and the peer has closed the connection:
\* the receive returns zero bytes.
ReceivesZero == inputThread = "recv" /\ peer = "disconnected" /\ ~DataWaiting

\* Both loop functions have returned.
LoopsExited == screenThread \in {"none", "done"} /\ inputThread \in {"none", "done"}

\* The inbound loop hands an event to the input handler.
InjectsInput == Len(injected') > Len(injected)

\* The peer has disconnected and the inbound loop has dealt with all the
\* peer had sent.
Disconnected == peer = "disconnected" /\ ~DataWaiting /\ inputThread # "process"

\* C11: when the receive of the inbound loop returns zero bytes, the inbound
\* loop sets running to false and exits; no input event is injected after the
\* peer disconnected; and both loops eventually exit.
C11_PeerDisconnect ==
    /\ [][(ReceivesZero /\ inputThread' # inputThread) =>
            (~sessRunning' /\ inputThread' = "done")]_vars
    /\ [][Disconnected => ~InjectsInput]_vars
    /\ ReceivesZero ~> LoopsExited

\* What is left of C11 when the end of the process counts as the end of the
\* loops: the only way the loops do not exit is std::terminate.
DisconnectEndsLoopsOrProcess ==
    ReceivesZero ~> (LoopsExited \/ terminated # "no")

\* Stop() was called on a running Session whose inbound loop is inside
\* ReceiveData; Stop() has not yet closed the socket.
StopBlocked == spc \in {"join_screen", "join_input"} /\ inputThread = "recv"

\* Stop() is about to return with both loop threads joined.
StopDone == spc = "return" /\ screenThread = "none" /\ inputThread = "none"

\* C27: Stop() called on a running Session whose inbound loop is blocked in
\* receive eventually returns with both loops exited, even if the peer never
\* sends another byte and never closes the connection.
C27_StopNotBlocked == StopBlocked ~> StopDone

\* What holds of C27: Stop() returns once the peer has sent something or has
\* closed the connection.
StopReturnsWhenPeerActs == (StopBlocked /\ (DataWaiting \/ peer = "disconnected")) ~> StopDone

(***************************************************************************)
(* Properties of SerializableMessage.                                      *)
(***************************************************************************)
\* Deserialize was called on the buffer Serialize produced.
RoundTripped == decoded.status # "none" /\ wire = Serialize(frame)

\* C12: Deserialize(Serialize(frame)) is the frame, in all five fields.
C12_RoundTrip ==
    RoundTripped => decoded = [status |-> "returned", msg |-> frame]

\* What is left of C12 when Deserialize returns: it returns the frame.
RoundTripWhenReturned ==
    (RoundTripped /\ decoded.status = "returned") => decoded.msg = frame

\* The buffer is shorter than 17 bytes plus the lengths it declares.
DeclaresMoreThanHeld(data) ==
    /\ Len(data) >= HeaderSize
    /\ \/ ContentLenHigh(data) > 0
       \/ Len(data) < HeaderSize + SourceLen(data) + TargetLen(data) + ContentLenLow(data)

\* C13: Deserialize fails on a buffer shorter than 17 bytes and on a buffer
\* shorter than 17 bytes plus its declared lengths, and succeeds otherwise,
\* slicing the fields at the declared offsets; the value returned on failure
\* is not the value of any successful decode.
C13_DecodeErrors ==
    decoded.status # "none" =>
        IF Len(wire) < HeaderSize \/ DeclaresMoreThanHeld(wire)
        THEN decoded = [status |-> "returned", msg |-> DefaultMessage]
        ELSE /\ decoded.status = "returned"
             /\ decoded.msg = Deserialize(wire)
             /\ decoded.msg # DefaultMessage

\* C14: Deserialize passes no index at or beyond the size of the buffer to
\* data[...], copies nothing from beyond its end, and builds no field longer
\* than its declared length.
C14_DecodeBounds ==
    decoded.status # "none" =>
        /\ ~SubscriptPastEnd(wire)
        /\ ~CopiesPastEnd(wire)
        /\ (decoded.status = "returned" /\ ~Rejects(wire)) =>
            /\ Len(decoded.msg.source) <= SourceLen(wire)
            /\ Len(decoded.msg.target) <= TargetLen(wire)
            /\ Len(decoded.msg.content) <= ContentLenLow(wire)

(***************************************************************************)
(* Properties of EncryptionManager.                                        *)
(***************************************************************************)
\* C15: for every key and every byte sequence x, Decrypt(Encrypt(x)) = x and
\* Encrypt(x) is as long as x.
C15_CipherInvolution ==
    /\ key # <<>> => Len(cipher) = Len(plain)
    /\ recovered # <<>> => recovered[1] = plain

\* A buffer longer than the key, changed by Encrypt, came back from Decrypt.
C15_Witness ==
    /\ recovered # <<>>
    /\ Len(plain) > KeySize
    /\ cipher # plain
    /\ cipher[KeySize + 1] = Xor(plain[KeySize + 1], key[1])

(***************************************************************************)
(* Properties of the handler of the server.                                *)
(***************************************************************************)
\* The RESPONSE messages the broker accepted from the handler.
AcceptedResponses ==
    SelectSeq(published, LAMBDA p : p.accepted /\ p.msg.type = "RESPONSE")

\* The handler returned from a COMMAND.
CommandHandled == hpc = "done" /\ request.type = "COMMAND"

\* C16: for every COMMAND handed to the handler of the server, addressed to
\* it by name or broadcast, the server publishes exactly one RESPONSE the
\* broker accepts, whose correlationId is the id of the request, whose source
\* is the module name of the server and whose target is the source of the
\* request.
C16_CommandResponse ==
    CommandHandled =>
        /\ Len(AcceptedResponses) = 1
        /\ AcceptedResponses[1].msg.correlationId = request.id
        /\ AcceptedResponses[1].msg.sourceModule = ServerName
        /\ AcceptedResponses[1].msg.targetModule = request.sourceModule

\* What holds of C16: a COMMAND addressed to the server by name, handled
\* while the broker runs, gets its one RESPONSE.
NamedCommandAnswered ==
    (CommandHandled /\ request.targetModule = ServerName /\ running) =>
        /\ Len(AcceptedResponses) = 1
        /\ AcceptedResponses[1].msg.correlationId = request.id
        /\ AcceptedResponses[1].msg.sourceModule = ServerName
        /\ AcceptedResponses[1].msg.targetModule = request.sourceModule

(***************************************************************************)
(* Properties of ExecuteCommand.                                           *)
(***************************************************************************)
\* The texts the command interpreter is documented to take: status, start,
\* stop, list_sessions, "setport: " and a number, "disconnect_session:" and
\* an id.
Recognized(cmd) ==
    \/ cmd \in {Text_status, Text_start, Text_stop, Text_list_sessions}
    \/ Len(cmd) >= 9 /\ SubSeq(cmd, 1, 9) = Text_setport
    \/ Len(cmd) >= 19 /\ SubSeq(cmd, 1, 19) = Text_disconnect_session

\* C17: a text that is not one of the recognized commands gets the response
\* Unknown command and leaves _running, _port and the Session Table as they
\* were; every recognized command gets another response.
C17_UnknownCommand ==
    [][executed' # executed =>
        IF Recognized(lastCommand')
        THEN lastResponse' # UnknownCommand
        ELSE /\ lastResponse' = UnknownCommand
             /\ srvRunning' = srvRunning /\ port' = port /\ sessions' = sessions]_vars

\* What holds of C17: a text that is not recognized gets Unknown command and
\* changes nothing, and status, start, stop, list_sessions and setport get
\* another response.
UnknownCommandElse ==
    [][executed' # executed =>
        /\ ~Recognized(lastCommand') =>
            /\ lastResponse' = UnknownCommand
            /\ srvRunning' = srvRunning /\ port' = port /\ sessions' = sessions
        /\ (Recognized(lastCommand') /\ ~IsDisconnectWholeLiteral(lastCommand')) =>
            lastResponse' # UnknownCommand]_vars

\* The id after "disconnect_session:".
DisconnectId(cmd) == SubSeq(cmd, 20, Len(cmd))

\* C18: disconnect_session:<id> with an id in the Session Table removes that
\* session and no other and answers success, Session disconnected; with an
\* id that is not in it, it answers failure, Session not found, and leaves
\* the table as it was.
C18_DisconnectSession ==
    [][(executed' # executed /\ IsDisconnectWholeLiteral(lastCommand')) =>
        IF DisconnectId(lastCommand') \in sessions
        THEN /\ sessions' = sessions \ {DisconnectId(lastCommand')}
             /\ lastResponse' = Success("Session disconnected")
        ELSE /\ sessions' = sessions
             /\ lastResponse' = Failure("Session not found")]_vars

(***************************************************************************)
(* Properties of NetworkManager.                                           *)
(***************************************************************************)
\* The call of Start that has just returned, returned false.
StartFailed == netStarts' # netStarts /\ startResult' = "false"

\* C19: when socket creation, bind or listen fails, Start returns false,
\* spawns no accept thread and leaves the NetworkManager stopped: _running is
\* false and no listening socket is open.
C19_StartFailure ==
    [][StartFailed =>
        /\ acceptThread' = acceptThread
        /\ ~nmRunning'
        /\ serverSocket' \in {"none", "closed"}]_vars

\* What holds of C19: a failed Start spawns no thread and leaves no socket
\* open.
FailedStartSpawnsNothing ==
    [][StartFailed =>
        /\ acceptThread' = acceptThread
        /\ serverSocket' \in {"none", "closed"}]_vars

\* Stop was called on a listening NetworkManager and has not returned.
Stopping == npc \in {"join", "close"} /\ startResult = "true"

\* C20: Stop on a listening NetworkManager closes the listening socket and
\* joins the accept thread, and it eventually returns, also when the accept
\* thread is blocked in accept and no peer connects; after it has returned
\* the connection callback is not called.
C20_AcceptorStop ==
    /\ [](stopReturned => (serverSocket = "closed" /\ acceptThread = "none"))
    /\ []~lateCallback
    /\ Stopping ~> stopReturned

\* What holds of C20: when Stop has returned, the socket is closed, the
\* thread is joined and the callback is not called again.
StopReturnedIsClean ==
    /\ [](stopReturned => (serverSocket = "closed" /\ acceptThread = "none"))
    /\ []~lateCallback


\* The chunks the inbound loop has received and finished with.
Processed == IF inputThread = "process" THEN nReceived - 1 ELSE nReceived

\* The decrypted contents of the first n chunks that hold at least a whole
\* InputEvent, in the order they were received.
RECURSIVE LongContents(_)
LongContents(n) ==
    IF n = 0 THEN <<>>
    ELSE LET d == Decrypt(sessKey, sentChunks[n])
         IN  LongContents(n - 1) \o (IF Len(d) >= InputEventSize THEN <<d>> ELSE <<>>)

\* One injection per long enough chunk, in receive order, whose type, x, y
\* and data are the four ints at the start of the decrypted content.
InjectedIsReceived ==
    /\ Len(injected) = Len(LongContents(Processed))
    /\ \A i \in 1..Len(injected) :
        EventBytes(injected[i]) = SubSeq(LongContents(Processed)[i], 1, InputEventSize)

\* Having dealt with a chunk, the loop goes back to its condition with
\* _running as it was, whatever the length of the chunk.
ChunkKeepsLoop ==
    (inputThread = "process" /\ inputThread' # "process" /\ terminated' = "no")
        => (inputThread' = "check" /\ sessRunning' = sessRunning)

\* C21: every non-empty chunk the inbound loop receives whose decrypted
\* length is at least sizeof(InputEvent) leads to exactly one injection, with
\* type, x, y and data decoded from the content, in receive order; a shorter
\* non-empty chunk injects nothing and does not end the loop.
C21_InputInjection == [](terminated = "no" => InjectedIsReceived) /\ [][ChunkKeepsLoop]_vars

\* A chunk one byte short was received first and a mouse move second: only
\* the mouse move was injected, with its coordinates, and the loop goes on.
C21_Witness ==
    /\ nReceived = 2 /\ inputThread = "recv" /\ sessRunning
    /\ Len(sentChunks[1]) = InputEventSize - 1
    /\ injected = <<MouseMove>>


(***************************************************************************)
(* Properties of unregistration and of the locks of the broker.            *)
(***************************************************************************)
\* An UnregisterModule(m) call has removed the name m from the registry and
\* has not yet erased the handlers, or has just returned true.
Removing(m) ==
    \E c \in Clients :
        /\ pc[c] \in {"erase_handlers", "return"}
        /\ arg[c].op = "UnregisterModule" /\ arg[c].name = m /\ arg[c].was

\* The worker makes one call handler(message).
Invokes == Len(calls') > Len(calls)

\* C23: the worker never invokes a handler of a module that is absent from
\* the registry because an UnregisterModule call for it has removed the name
\* and not yet the handlers, or has completed.
C23_UnregisterAtomic ==
    [][Invokes => ~(Removing(targetModules[ti])
                        /\ ~Contains(registeredModules, targetModules[ti]))]_vars

\* What holds of C23: _handlers is not changed while the worker dispatches,
\* and once UnregisterModule has erased the handlers of a module and is about
\* to return, the worker does not invoke one of them.
HandlersStableInDispatch ==
    [][/\ (handlers' # handlers => wpc # "dispatch")
       /\ (Invokes => ~\E c \in Clients :
                /\ pc[c] = "return" /\ arg[c].op = "UnregisterModule" /\ arg[c].was
                /\ arg[c].name = targetModules[ti])]_vars

\* Thread c takes a step that locks _handlersMutex.
LocksHandlers(c) == UnregisterEraseHandlers(c) \/ \E n \in Names : RegisterHandler(c, n)

\* C24: a thread that holds more than one of the locks of the broker took
\* them in the order queue lock, handler lock, module lock; no thread
\* acquires the handler lock while it holds the module lock.
C24_LockOrder ==
    [][/\ \A c \in Clients : modulesMutex = c => ~LocksHandlers(c)
       /\ modulesMutex = "worker" => ~WorkerLockHandlers
       /\ modulesMutex = "control" => ~StopClearHandlers]_vars

\* What holds of C24: the two locks are only ever nested one way, the module
\* lock outside and the handler lock inside; the worker, which keeps the
\* handler lock for a whole dispatch, holds no module lock meanwhile.
NestedOneWay ==
    /\ handlersMutex \in {"free", "worker"}
    /\ handlersMutex = "worker" => modulesMutex # "worker"

(***************************************************************************)
(* Properties of the message ids.                                          *)
(***************************************************************************)
\* The ids GenerateUniqueId returned are not empty, differ from one another
\* and increase with the counter.
IssuedIncrease ==
    \A i \in 1..Len(issued) :
        /\ issued[i] # <<>>
        /\ \A j \in 1..Len(issued) :
            i < j => DecimalValue(issued[i]) < DecimalValue(issued[j])

\* C22: every message published to the broker carries a non-empty id that
\* differs from the id of every other message, also when threads create
\* messages concurrently; ids are issued in strictly increasing order of the
\* counter.
C22_MessageIdentity ==
    /\ \A i \in 1..Len(posted) : posted[i].id # <<>>
    /\ \A i, j \in 1..Len(posted) : i # j => posted[i].id # posted[j].id
    /\ IssuedIncrease

\* What holds of C22: the messages made by Message::Create* carry non-empty,
\* pairwise different ids, and the ids are issued in increasing order.
CreatedIdsDistinct ==
    /\ \A i \in 1..Len(posted) : posted[i].type \in CreatedTypes => posted[i].id # <<>>
    /\ \A i, j \in 1..Len(posted) :
        (i # j /\ posted[i].type \in CreatedTypes /\ posted[j].type \in CreatedTypes)
            => posted[i].id # posted[j].id
    /\ IssuedIncrease


(***************************************************************************)
(* Properties of the Session Table.                                        *)
(***************************************************************************)
\* C25: every read or write of the Session Table is made while the
\* session-table lock is held, so no two threads are ever inside the table
\* at the same time.
C25_TableLocked ==
    /\ \A t \in TableThreads : tpc[t] # NoAccess => tableMutex = t
    /\ \A t1, t2 \in TableThreads :
        (tpc[t1] # NoAccess /\ tpc[t2] # NoAccess) => t1 = t2

\* What holds of C25: list_sessions and the count of the status command are
\* made with the lock held.
LockedReads ==
    \A t \in TableThreads : TakesLock(tpc[t].op) => tableMutex = t

\* The inbound loop of the Session under key k has seen the disconnect.
Ended(k) == sessionTable[k] = "ended"

\* The Session under key k is gone: socket closed, entry removed.
Destroyed(k) == sessionTable[k] = "absent" /\ k \in tblClosed

\* C26: once a loop of a Session has detected that the peer disconnected,
\* that Session is eventually destroyed, its socket closed and its entry
\* removed from the Session Table, without a stop of the Server; the other
\* Sessions of the table keep running.
C26_DisconnectCleanup ==
    /\ \A k \in Sockets : Ended(k) ~> Destroyed(k)
    /\ [][\A k, j \in Sockets :
            (~Ended(k) /\ Ended(k)' /\ j # k) => sessionTable'[j] = sessionTable[j]]_vars

\* What holds of C26: the end of one Session leaves the others as they are;
\* its entry stays in the table until a Stop or disconnect_all clears it.
OthersKeepRunning ==
    [][/\ \A k, j \in Sockets :
            (~Ended(k) /\ Ended(k)' /\ j # k) => sessionTable'[j] = sessionTable[j]
       /\ \A k \in Sockets :
            (Ended(k) /\ ~Ended(k)') =>
                \E t \in TableThreads : tpc[t].op \in {"stop", "shutdown", "disconnect_all"}]_vars


(***************************************************************************)
(* Properties of the worker threads of the broker.                         *)
(***************************************************************************)
\* The threads that are running ProcessMessages.
Consumers == {i \in 1..MaxSpawns : lcWorkers[i] = "running"}

\* C29: there is never more than one worker thread taking messages from the
\* queue; Start() on a running broker spawns no second worker, also when two
\* threads call Start() at the same time; Start() after Stop() spawns one
\* new worker.
C29_SingleConsumer ==
    /\ Cardinality(Consumers) <= 1
    /\ ~lcTerminated
    /\ (lcRunning /\ \A t \in Callers : lcpc[t] = "idle") => Cardinality(Consumers) = 1

\* What holds of C29: as long as no call of Start or Stop began while
\* another was under way, there is at most one worker, exactly one while the
\* broker runs, and std::terminate is not called.
OneConsumerWhenCallsInTurn ==
    ~lcOverlapped =>
        /\ Cardinality(Consumers) <= 1
        /\ ~lcTerminated
        /\ (lcRunning /\ \A t \in Callers : lcpc[t] = "idle") => Cardinality(Consumers) = 1


(***************************************************************************)
(* Properties of the start and stop commands.                              *)
(***************************************************************************)
\* The command c of thread t ends at position p with a response.
Responds(t, c, p) == At(t, c, p) /\ ccpc'[t] = NoCommand

\* A start command ends while the Server runs and it is not the command
\* that started it: the response is "Server already running" and nothing
\* has changed.
StartOnRunning ==
    \A t \in Requesters : \A p \in {"exec", "start_check", "net_start"} :
        (Responds(t, "start", p) /\ ccRunning) =>
            /\ ccResp'[t] = "Server already running"
            /\ controlState' = controlState

\* A stop command ends while the Server is stopped and it is not the command
\* that stopped it: the response is "Server not running" and nothing has
\* changed.
StopOnStopped ==
    \A t \in Requesters : \A p \in {"exec", "stop_check"} :
        (Responds(t, "stop", p) /\ ~ccRunning) =>
            /\ ccResp'[t] = "Server not running"
            /\ controlState' = controlState

\* C30: the Server never has more than one accept thread; a start command
\* on a running Server is answered "Server already running" and a stop
\* command on a stopped Server "Server not running", each leaving the state
\* as it was, however the start and stop commands of concurrent request
\* threads interleave.
C30_SingleAcceptor ==
    /\ []~ccTerminated
    /\ [][StartOnRunning /\ StopOnStopped]_vars

\* What holds of C30: a second accept thread is never created, and as long
\* as no command began while another was being executed the responses are
\* as stated.
CommandsInTurn ==
    /\ []~ccTerminated
    /\ [][~ccOverlapped' => (StartOnRunning /\ StopOnStopped)]_vars


(***************************************************************************)
(* Properties of the bytes a Session sends.                                *)
(***************************************************************************)
\* bytes is what Serialize returns for a message whose content is payload.
IsEncodingOf(bytes, payload) ==
    /\ ~Rejects(bytes)
    /\ Serialize(Deserialize(bytes)) = bytes
    /\ Deserialize(bytes).content = payload

\* C31: every byte sequence a Session hands to send, for screen data,
\* clipboard text, a chat line, a file size or a file chunk, is the encoding
\* Serialize gives a message whose content is the payload.
C31_OneFraming == sendKind # "none" => IsEncodingOf(sendBytes, sendPayload)

\* What holds of C31: the bytes handed to send are the payload itself, with
\* no header before it.
SentIsPayload == sendKind # "none" => sendBytes = sendPayload


(***************************************************************************)
(* Properties of the handler of the server and the state of the server.    *)
(***************************************************************************)
\* The handler has just been called.
Delivers == delivered' # delivered

\* The payloads of the RESPONSE messages the handler published.
ResponsePayloads ==
    SelectSeq(dlvPublished, LAMBDA m : m.type = "RESPONSE")

\* C32: for every COMMAND message delivered to the handler of the server,
\* the state of the server afterwards and the payload of the RESPONSE are
\* those ExecuteCommand gives for the payload of the message.
C32_CommandsInterpreted ==
    [][(Delivers /\ dlvRequest'.type = "COMMAND") =>
        \E started \in BOOLEAN :
            LET r == ExecuteCommand(dlvRequest'.payload, dlvBefore', started) IN
                /\ ServerState(srvRunning', port', sessions') = r.state
                /\ Len(ResponsePayloads') = 1
                /\ ResponsePayloads'[1].payload.kind = r.response.kind
                /\ ResponsePayloads'[1].payload = r.response]_vars

\* What holds of C32: a COMMAND gets one RESPONSE, whose payload is
\* "Command processed" whatever the command; the port is never changed and
\* the server is never started, and a payload with none of "shutdown",
\* "status" and "disconnect_all" in it changes nothing.
CommandsProcessed ==
    [][(Delivers /\ dlvRequest'.type = "COMMAND") =>
        /\ Len(ResponsePayloads') = 1
        /\ ResponsePayloads'[1].payload = CommandProcessed
        /\ port' = port
        /\ srvRunning' => srvRunning
        /\ (\A lit \in {Text_shutdown, Text_status, Text_disconnect_all} :
                ~Find(dlvRequest'.payload, lit))
            => (srvRunning' = srvRunning /\ sessions' = sessions /\ Len(dlvPublished') = 1)]_vars

\* C40: for a delivered message of a type other than COMMAND the handler
\* publishes nothing and leaves _running, _port and the Session Table as
\* they were.
C40_OnlyCommands ==
    [][(Delivers /\ dlvRequest'.type # "COMMAND") =>
        /\ dlvPublished' = <<>>
        /\ srvRunning' = srvRunning /\ port' = port /\ sessions' = sessions]_vars

\* A STATUS message with "shutdown" in its payload was delivered to a
\* running server with a session.
C40_Witness ==
    /\ delivered > 0
    /\ dlvRequest.type = "STATUS" /\ dlvRequest.payload = Text_shutdown
    /\ dlvBefore.running /\ dlvBefore.sessions # {}


(***************************************************************************)
(* Properties of the length fields Serialize writes.                       *)
(***************************************************************************)
\* The lengths the header declares, read as Deserialize reads them.
DeclaredSource == Small(LittleEndianValue(SubSeq(lengthBytes, 1, 2)))
DeclaredTarget == Small(LittleEndianValue(SubSeq(lengthBytes, 3, 4)))
DeclaredContent ==
    <<LittleEndianValue(SubSeq(lengthBytes, 5, 6)), LittleEndianValue(SubSeq(lengthBytes, 7, 8)), 0>>

\* C33: for every message serialized, the sourceLen, targetLen and
\* contentLen of the header are the sizes of source, target and content, and
\* the size of the result is 17 + sourceLen + targetLen + contentLen with the
\* declared values, also for a source or target of 2^16 bytes or more and a
\* content of 2^32 bytes or more.
C33_FrameLength ==
    sizes # <<>> =>
        /\ DeclaredSource = sizes.source
        /\ DeclaredTarget = sizes.target
        /\ DeclaredContent = sizes.content
        /\ resultSize = SizeAdd(SizeAdd(SizeAdd(Small(HeaderSize), DeclaredSource),
                                       DeclaredTarget), DeclaredContent)

\* What holds of C33: the declared lengths are the sizes modulo 2^16 and
\* 2^32, and for a source and a target below 2^16 bytes and a content below
\* 2^32 bytes the header declares the sizes and the size of the result is 17
\* plus their sum.
FrameLengthWhenSizesFit ==
    sizes # <<>> =>
        /\ DeclaredSource = Uint16(sizes.source)
        /\ DeclaredTarget = Uint16(sizes.target)
        /\ DeclaredContent = Uint32(sizes.content)
        /\ (sizes.source = Uint16(sizes.source) /\ sizes.target = Uint16(sizes.target)
                /\ sizes.content = Uint32(sizes.content))
            => resultSize = SizeAdd(SizeAdd(SizeAdd(Small(HeaderSize), DeclaredSource),
                                           DeclaredTarget), DeclaredContent)


(***************************************************************************)
(* Properties of the locks of the broker.                                  *)
(***************************************************************************)
BrokerThreads == Clients \cup {"worker"}

\* The mutex thread t is waiting for, inside a call.
Wants(t) ==
    IF t = "worker"
    THEN IF wpc = "targets" /\ message.targetModule = Empty THEN "modules"
         ELSE IF wpc = "lock_handlers" THEN "handlers"
         ELSE "none"
    ELSE IF pc[t] = "erase_handlers" THEN "handlers" ELSE "none"

Holder(m) == IF m = "modules" THEN modulesMutex ELSE handlersMutex

\* Thread t waits for a mutex that thread u holds.
WaitsOn(t, u) == Wants(t) # "none" /\ Holder(Wants(t)) = u

\* Threads wait for each other in a cycle: a thread for a mutex it holds
\* itself, or two threads each for a mutex of the other.
WaitCycle ==
    \E t \in BrokerThreads, u \in BrokerThreads : WaitsOn(t, u) /\ WaitsOn(u, t)

\* A client is inside a call of the broker.
InCall(c) == pc[c] # "idle"

HandlerWillPublish ==
    /\ wpc = "dispatch" /\ ti <= Len(targetModules) /\ hi <= handlers[targetModules[ti]]
    /\ Len(reentrant) < MaxReentrant
    /\ SendAccepts(running, targetModules[ti])

\* A handler has just published a message the broker accepted.
Reenters ==
    /\ Len(reentrant') > Len(reentrant)
    /\ reentrant'[Len(reentrant')].accepted

StoppedAndReturned == ~running /\ cpc = "idle"

\* C36: whenever the broker is stopped and Stop() has returned the queue is
\* empty, however Stop() and the calls of SendMessage interleave, so that
\* Start() never finds a message of an earlier run in the queue.
C36_NoSurvivor ==
    /\ [](StoppedAndReturned => messageQueue = <<>>)
    /\ [][(~running /\ running') => messageQueue = <<>>]_vars

\* What holds of C36: the step of Stop() that clears the queue leaves it
\* empty, and a message in the queue of a stopped broker was accepted by a
\* SendMessage that read _running while the broker ran.
StopClearsQueue ==
    /\ [][(cpc = "clear_queue" /\ cpc' # cpc) => messageQueue' = <<>>]_vars
    /\ [](StoppedAndReturned =>
            \A i \in 1..Len(messageQueue) : sent[messageQueue[i].id].run)


(***************************************************************************)
(* Properties of the dispatch of accepted messages.                        *)
(***************************************************************************)
\* SendMessage returned true for the message with this id.
Accepted(i) == i <= Len(sent) /\ sent[i].ret = "true"

\* C37: every message for which SendMessage returned true is eventually
\* taken from the queue by the worker and dispatched, unless the broker is
\* stopped (Stop() may have discarded the message) or a handler takes the
\* process down; the worker is scheduled and its wait on the queue is
\* bounded.
C37_EventualDispatch ==
    \A i \in 1..MaxMsgs :
        Accepted(i) ~> (Contains(dispatched, i) \/ i \in discarded \/ ~running \/ ~Alive)

\* The worker found the queue empty and went back to the start of its loop,
\* and the message accepted afterwards has been dispatched while the broker
\* kept running.
C37_Witness ==
    /\ running /\ Alive
    /\ \E i \in 1..MaxMsgs : Accepted(i) /\ Contains(dispatched, i) /\ i \in invoked


(***************************************************************************)
(* Properties of RemoteDesktopServer::Stop.                                *)
(***************************************************************************)
\* Stop(), called by thread t on a running server, returns in this step.
ServerStopReturns(t) == StopsServer(tpc[t].op) /\ tpc'[t] = NoAccess

\* The sessions in the Session Table.
InTable == {k \in Sockets : sessionTable[k] # "absent"}

\* Stop(), called by thread t on a running server, begins in this step.
ServerStopBegins(t) == tpc[t] = NoAccess /\ StopsServer(tpc'[t].op)

\* C38: Stop() on a running Server clears _running, and when it returns the
\* Session Table is empty, every Session that was in it has had its two
\* threads joined and its socket closed, and no Session was destroyed with a
\* thread still joinable.
C38_ServerStop ==
    [][\A t \in TableThreads :
        /\ ServerStopBegins(t) => ~tblRunning'
        /\ ServerStopReturns(t) =>
            /\ \A k \in Sockets : sessionTable'[k] = "absent"
            /\ InTable \subseteq tblClosed'
            /\ ~tblCrashed']_vars

\* What holds of C38: when Stop() returns the Session Table is empty and
\* every Session that was still running has been joined and closed; when
\* no Session of the table had been ended by its peer, none was destroyed
\* with a joinable thread.
ServerStopOfRunningSessions ==
    [][\A t \in TableThreads :
        /\ ServerStopBegins(t) => ~tblRunning'
        /\ ServerStopReturns(t) =>
            /\ \A k \in Sockets : sessionTable'[k] = "absent"
            /\ {k \in Sockets : sessionTable[k] = "running"} \subseteq tblClosed'
            /\ (\A k \in Sockets : sessionTable[k] # "ended") => ~tblCrashed']_vars

(***************************************************************************)
(* Properties of the recorder.                                             *)
(***************************************************************************)
\* The places of the file that hold fields of record r, and the threads
\* that wrote them.
PlacesOf(r) == {i \in 1..Len(recordFile) : recordFile[i].rec = r}
RecordsInFile == {recordFile[i].rec : i \in 1..Len(recordFile)}
NamesOf(r) ==
    LET fields == SelectSeq(recordFile, LAMBDA f : f.rec = r)
    IN  [i \in 1..Len(fields) |-> fields[i].name]
WriterOf(r) == recordFile[CHOOSE i \in PlacesOf(r) : TRUE].by

\* The fields of record r lie side by side, each one whole, and they are the
\* fields of the record from its first one: all of them, or all but those
\* its writer has still to write.
ContiguousRecord(r) ==
    /\ \A i \in PlacesOf(r), k \in PlacesOf(r) : \A j \in i..k : j \in PlacesOf(r)
    /\ \A i \in PlacesOf(r) : ~recordFile[i].torn
    /\ \/ NamesOf(r) = FieldsOf(WriterOf(r))
       \/ /\ recPc[WriterOf(r)].id = r
          /\ NamesOf(r) \o recPc[WriterOf(r)].rest = FieldsOf(WriterOf(r))

\* C39: while recording is active every record of the recording file is
\* contiguous: the writes of a frame record and of an event record are never
\* interleaved with each other, nor with StartRecording or StopRecording.
C39_RecordAtomicity ==
    recording => \A r \in RecordsInFile : ContiguousRecord(r)

\* The place of a field in the layout of its record.
PlaceInLayout(f) ==
    CHOOSE n \in 1..Len(FieldsOf(f.by)) : FieldsOf(f.by)[n] = f.name

\* What holds: the fields of one record that are in the file are in the
\* order of the record's layout, and no field is there twice.
FieldsInLayoutOrder ==
    \A i \in 1..Len(recordFile), j \in 1..Len(recordFile) :
        (i < j /\ recordFile[i].rec = recordFile[j].rec)
            => PlaceInLayout(recordFile[i]) < PlaceInLayout(recordFile[j])

=============================================================================
